---- MODULE Spec2Model ----
(***************************************************************************)
(* A model of the scraplink client: the price estimators of                *)
(* src/lib/pricePredictor.ts (the remote delegate predictPrice3 /          *)
(* predictPrice and the local table-driven predictPrice) and the           *)
(* aggregator of ListScrapPage.tsx (handlePredictPrice and the handlers    *)
(* that edit the selection).                                               *)
(*                                                                         *)
(* Conventions.                                                            *)
(*  - A JavaScript string on which the code works character by character   *)
(*    is a sequence of one-character strings; messages are TLA+ strings.   *)
(*  - An optional value (undefined, a missing JSON field, NaN) is a set    *)
(*    with no element; a present value x is {x}.                           *)
(*  - Prices and weights handed to the remote estimator are integers; a    *)
(*    quotient is an exact rational <<numerator, denominator>>.            *)
(***************************************************************************)
EXTENDS Integers, Sequences, FiniteSets, TLC

VARIABLES
    \* ---- a stand-alone call of an estimator entry point
    estCall,        \* the entry point called and its arguments
    estRequests,    \* the request bodies this call has sent to POST /predict
    estPending,     \* the call awaits the service's response
    estResponse,    \* the response fetch settled with, once it has
    estResult       \* what the call returned or threw

VARIABLES
    \* ---- ListScrapPage: its React state
    selectedCategories, \* string[]
    selectedLeaves,     \* LeafSelection[]
    predicting,         \* boolean
    predictedTotal,     \* number | null
    priceBreakdown,     \* Record<category, {weight, price}>
    needsRecalc,        \* boolean
    \* ---- ListScrapPage: what is running
    calls,              \* the invocations of handlePredictPrice, by slot
    net,                \* the requests to POST /predict that are in flight
    editsInFlight,      \* the edits made since the running invocation started
    lastStep            \* what the last step did and alerted (a history variable)

VARIABLES
    \* ---- the tables of the price prediction system (unnamed/part_009)
    metal_prices,       \* rows of metal_prices
    price_history,      \* rows of price_history, in the order of insertion
    dataset_uploads,    \* rows of dataset_uploads, in the order of insertion
    price_predictions,  \* rows of price_predictions, in the order of insertion
    \* ---- DatasetManagement: its React state and what is running
    uploading,          \* boolean
    currentPrices,      \* MetalPrice[] as last fetched
    upload,             \* the running invocation of handleUpload
    lastIngest          \* what the last step of handleUpload did (a history variable)

VARIABLES
    \* ---- the market data cache
    cache,              \* the cached reference prices
    lastCacheUpdate,    \* the time of the last refresh, 0 before the first
    now,                \* the clock
    lastGet             \* what the last call of getCurrentPrices did (a history variable)

VARIABLES
    \* ---- ListScrapPage: the rest of its state, and the listings
    profile,            \* useAuth().profile, or none
    location,           \* [number, number] | null
    description,        \* string
    loading,            \* boolean
    submitting,         \* the insert handleSubmit awaits, or none
    scrap_listings      \* rows of scrap_listings, in the order of insertion

VARIABLES
    \* ---- AuthProvider (useAuth.tsx), the browser and the router
    user,               \* User | null
    isAdmin,            \* boolean
    authLoading,        \* AuthProvider's loading (ListScrapPage has its own)
    authPc,             \* where init is: "getSession", "ready" or "failed"
    authEvents,         \* sessions the onAuthStateChange callback has yet to be called with
    fetching,           \* the user id fetchProfile awaits the row of, or none
    adminCall,          \* TRUE while signInAsAdmin awaits admin_login
    localStorage,       \* the items isAdmin and adminEmail
    session,            \* the Supabase auth session kept by the browser, or none
    path,               \* the location of the router
    adminLoggedIn,      \* signInAsAdmin has succeeded and nobody signed out since (a history variable)
    reloaded            \* the page was reloaded since then (a history variable)

VARIABLES
    \* ---- the pickup requests: tables, NearbyScrapPage, PickupRequestsPage
    listingStatus,      \* scrap_listings.status of the listings of the seller
    pickup_requests,    \* rows of pickup_requests
    requestsSent,       \* how many rows pickup_requests was given so far
    transactions,       \* rows of transactions, in the order of insertion
    requests,           \* PickupRequestsPage.requests
    actionLoading,      \* string | null
    finalPrice,         \* { [request_id]: number }
    handlers,           \* the running handler of each request
    lastMarket          \* what the last step did (a history variable)

VARIABLES
    \* ---- EditListingModal (unnamed/part_002)
    isOpen,             \* the prop isOpen
    form,               \* the values of the form (react-hook-form)
    prediction,         \* PricePrediction | null
    predictingPrice,    \* boolean
    editLoading,        \* the modal's loading
    predictCall,        \* what the awaited predictPrice was called with, or none
    updateCall,         \* the update onSubmit awaits, or none
    listing,            \* the row of scrap_listings the modal edits
    lastEdit            \* what the last step did (a history variable)

estVars == <<estCall, estRequests, estPending, estResponse, estResult>>

pageState == <<selectedCategories, selectedLeaves, predicting, predictedTotal,
               priceBreakdown, needsRecalc>>

pageVars == <<selectedCategories, selectedLeaves, predicting, predictedTotal,
              priceBreakdown, needsRecalc, calls, net, editsInFlight, lastStep>>

adminVars == <<metal_prices, price_history, dataset_uploads, price_predictions,
               uploading, currentPrices, upload, lastIngest>>

cacheVars == <<cache, lastCacheUpdate, now, lastGet>>

submitVars == <<profile, location, description, loading, submitting, scrap_listings>>

authVars == <<user, isAdmin, authLoading, authPc, authEvents, fetching, adminCall,
              localStorage, session, path, adminLoggedIn, reloaded>>

\* The components modelled after the pages above
marketVars == <<listingStatus, pickup_requests, requestsSent, transactions,
                requests, actionLoading, finalPrice, handlers, lastMarket>>

editVars == <<isOpen, form, prediction, predictingPrice, editLoading, predictCall,
              updateCall, listing, lastEdit>>

moreVars == <<authVars, marketVars, editVars>>

\* What the steps of one component leave alone
offEstimator == <<pageVars, submitVars, adminVars, cacheVars, moreVars>>
offPage == <<estVars, submitVars, adminVars, cacheVars, moreVars>>
offSubmit == <<estVars, adminVars, cacheVars, moreVars>>
offAdmin == <<estVars, pageVars, submitVars, cacheVars, moreVars>>
offCache == <<estVars, pageVars, submitVars, adminVars, moreVars>>
offAuth == <<estVars, pageVars, adminVars, cacheVars, marketVars, editVars,
             location, description, loading, submitting, scrap_listings>>
offMarket == <<estVars, pageVars, submitVars, adminVars, cacheVars, authVars, editVars>>
offEdit == <<estVars, pageVars, submitVars, adminVars, cacheVars, authVars, marketVars>>

vars == <<estVars, pageVars, submitVars, adminVars, cacheVars, moreVars>>

----------------------------------------------------------------------------
\* Optional values

NoValue == {}
Some(x) == {x}
Val(o) == CHOOSE x \in o : TRUE
IsSome(o) == o # {}

----------------------------------------------------------------------------
\* JavaScript string primitives, on sequences of characters

UpperChars == <<"A","B","C","D","E","F","G","H","I","J","K","L","M",
                "N","O","P","Q","R","S","T","U","V","W","X","Y","Z">>
LowerChars == <<"a","b","c","d","e","f","g","h","i","j","k","l","m",
                "n","o","p","q","r","s","t","u","v","w","x","y","z">>
DigitChars == {"0","1","2","3","4","5","6","7","8","9"}

Range(s) == { s[i] : i \in DOMAIN s }

\* \w of a JavaScript regular expression
IsWordChar(c) == c \in Range(UpperChars) \cup Range(LowerChars) \cup DigitChars \cup {"_"}

\* \s of a JavaScript regular expression, and what trim() strips
IsSpace(c) == c \in {" ", "\t", "\n"}

toLowerChar(c) ==
    IF \E i \in DOMAIN UpperChars : UpperChars[i] = c
    THEN LowerChars[CHOOSE i \in DOMAIN UpperChars : UpperChars[i] = c]
    ELSE c

toLowerCase(s) == [i \in DOMAIN s |-> toLowerChar(s[i])]

trim(s) ==
    IF \A i \in DOMAIN s : IsSpace(s[i]) THEN <<>>
    ELSE LET first == CHOOSE i \in DOMAIN s :
                          /\ ~IsSpace(s[i])
                          /\ \A j \in 1..(i-1) : IsSpace(s[j])
             last  == CHOOSE i \in DOMAIN s :
                          /\ ~IsSpace(s[i])
                          /\ \A j \in (i+1)..Len(s) : IsSpace(s[j])
         IN  SubSeq(s, first, last)

\* String.prototype.includes
includes(s, sub) ==
    \E i \in 1..(Len(s) - Len(sub) + 1) : SubSeq(s, i, i + Len(sub) - 1) = sub

\* s.replace(/s\b/, ''): without the g flag only the first match goes. The
\* match is an "s" followed by a word boundary, i.e. by the end of the string
\* or by a character that is not a word character.
SBoundaryAt(s, i) ==
    /\ s[i] = "s"
    /\ (i = Len(s) \/ ~IsWordChar(s[i+1]))

replaceFirstSBoundary(s) ==
    IF \E i \in DOMAIN s : SBoundaryAt(s, i)
    THEN LET i == CHOOSE k \in DOMAIN s :
                      /\ SBoundaryAt(s, k)
                      /\ \A j \in 1..(k-1) : ~SBoundaryAt(s, j)
         IN  SubSeq(s, 1, i-1) \o SubSeq(s, i+1, Len(s))
    ELSE s

\* s.replace(/\s+/g, "-"): every maximal run of white space becomes one "-"
RECURSIVE replaceSpaceRuns(_)
replaceSpaceRuns(s) ==
    IF s = <<>> THEN <<>>
    ELSE IF IsSpace(s[1])
         THEN IF Len(s) > 1 /\ IsSpace(s[2])
              THEN replaceSpaceRuns(Tail(s))
              ELSE <<"-">> \o replaceSpaceRuns(Tail(s))
         ELSE <<s[1]>> \o replaceSpaceRuns(Tail(s))

----------------------------------------------------------------------------
\* Exact rationals <<n, d>> with d > 0

Rat(n, d) == <<n, d>>
RatOfInt(n) == <<n, 1>>

\* a >= b. The first three cases decide by sign and by the side of 1 each
\* operand lies on; they keep the cross product inside the integer range and
\* agree with it wherever both apply.
RatGE(a, b) ==
    CASE a[1] <= 0 /\ b[1] > 0        -> FALSE
      [] a[1] > 0 /\ b[1] <= 0        -> TRUE
      [] a[1] >= a[2] /\ b[1] <= b[2] /\ b[1] > 0 -> TRUE
      [] OTHER                        -> a[1] * b[2] >= b[1] * a[2]

RatMax(a, b) == IF RatGE(a, b) THEN a ELSE b
RatPositive(a) == a[1] > 0

\* a / b for b > 0
RatDiv(a, b) == <<a[1] * b[2], a[2] * b[1]>>

\* The literal 1e-6 (written 0.000001 as well) of pricePredictor.ts
Micro == Rat(1, 1000000)

----------------------------------------------------------------------------
\* The remote delegate: pricePredictor.ts, lines 19-165

Str_metal == <<"m","e","t","a","l">>
Str_e_waste == <<"e","-","w","a","s","t","e">>
Str_ewaste == <<"e","w","a","s","t","e">>
Str_paper == <<"p","a","p","e","r">>
Str_glass == <<"g","l","a","s","s">>

normalizeScrapType(t) ==
    LET s == replaceSpaceRuns(trim(toLowerCase(t)))
    IN  IF s \in {Str_metal, Str_e_waste, Str_paper, Str_glass} THEN s
        ELSE IF s = Str_ewaste THEN Str_e_waste
        ELSE s

\* !weight || weight <= 0, for a weight that may be undefined or NaN
badWeight(weight) == weight = NoValue \/ Val(weight) = 0 \/ Val(weight) <= 0

InvalidInputs3Message ==
    "Invalid inputs. Provide category, sub-category, sub-sub-category and positive weight."
InvalidInputsMessage ==
    "Invalid inputs. Provide category, subcategory/leaf and positive weight."
PredictionFailedMessage == "Prediction failed"
FailedToFetchMessage == "Failed to fetch"

invalidInputs3(scrapCategory, subCategory, subSubCategory, weight) ==
    scrapCategory = <<>> \/ subCategory = <<>> \/ subSubCategory = <<>> \/ badWeight(weight)

invalidInputs(scrapCategory, subCategoryOrLeaf, weight) ==
    scrapCategory = <<>> \/ subCategoryOrLeaf = <<>> \/ badWeight(weight)

requestBody3(scrapCategory, subCategory, subSubCategory, weight) ==
    [ scrap_type       |-> normalizeScrapType(scrapCategory),
      sub_category     |-> subCategory,
      sub_sub_category |-> Some(subSubCategory),
      weight           |-> Val(weight) ]

requestBody(scrapCategory, subCategoryOrLeaf, weight) ==
    [ scrap_type       |-> normalizeScrapType(scrapCategory),
      sub_category     |-> subCategoryOrLeaf,
      sub_sub_category |-> NoValue,
      weight           |-> Val(weight) ]

\* What the service may answer. A response is
\*   [status |-> "ok",   base_price |-> b, predicted_price |-> {p} or {}]
\*   [status |-> "fail", json |-> the body parses, error |-> {message} or {}]
\*   [status |-> "reject"]                      (fetch itself rejects)
\* The message of a non-success response: msg = err?.error || msg
failureMessageMutantGeneric(resp) == PredictionFailedMessage

failureMessage(resp) ==
    IF resp.json /\ IsSome(resp.error) /\ Val(resp.error) # ""
    THEN Val(resp.error)
    ELSE PredictionFailedMessage

\* The prediction built from a success response (lines 66-85 and 123-142)
weightMultiplierMutantNoFloor(basePrice, predicted, weight) ==
    RatDiv(RatOfInt(predicted), RatMax(RatOfInt(basePrice * weight), Micro))

weightMultiplierOf(basePrice, predicted, weight) ==
    LET denom == RatMax(RatOfInt(basePrice * weight), Micro)
    IN  RatMax(RatDiv(RatOfInt(predicted), denom), Micro)

predictionOf(data, weight) ==
    LET basePrice == data.base_price
        predicted == IF IsSome(data.predicted_price)
                     THEN Val(data.predicted_price)
                     ELSE basePrice * weight
    IN  [ predictedPrice |-> predicted,
          confidence     |-> Rat(9, 10),
          factors |-> [ basePrice         |-> basePrice,
                        weightMultiplier  |-> weightMultiplierOf(basePrice, predicted, weight),
                        marketTrend       |-> Rat(1, 1),
                        qualityAdjustment |-> Rat(1, 1) ] ]

\* What the call returns or throws once fetch has settled with resp
settle(resp, weight) ==
    CASE resp.status = "reject" -> [kind |-> "error", message |-> FailedToFetchMessage]
      [] resp.status = "fail"   -> [kind |-> "error", message |-> failureMessage(resp)]
      [] resp.status = "ok"     -> [kind |-> "ok", prediction |-> predictionOf(resp, weight)]

----------------------------------------------------------------------------
\* The local estimator: pricePredictor.ts, lines 181-283

\* The table basePrices, as the set of its <<key, price>> entries
basePrices ==
    { <<<<"i","r","o","n">>, 25>>,  \* iron
      <<<<"b","r","a","s","s">>, 310>>,  \* brass
      <<<<"c","o","p","p","e","r">>, 670>>,  \* copper
      <<<<"t","i","n">>, 220>>,  \* tin
      <<<<"l","e","a","d">>, 160>>,  \* lead
      <<<<"a","l","u","m","i","n","u","m">>, 190>>,  \* aluminum
      <<<<"b","r","o","n","z","e">>, 280>>,  \* bronze
      <<<<"z","i","n","c">>, 210>>,  \* zinc
      <<<<"s","t","e","e","l">>, 35>>,  \* steel
      <<<<"n","i","c","k","e","l">>, 430>>,  \* nickel
      <<<<"c","i","r","c","u","i","t"," ","b","o","a","r","d","s">>, 120>>,  \* circuit boards
      <<<<"c","h","i","p","s">>, 90>>,  \* chips
      <<<<"c","o","m","p","u","t","e","r">>, 150>>,  \* computer
      <<<<"l","a","p","t","o","p","s">>, 170>>,  \* laptops
      <<<<"t","v">>, 130>>,  \* tv
      <<<<"r","e","f","r","i","g","e","r","a","t","o","r">>, 110>>,  \* refrigerator
      <<<<"w","a","s","h","i","n","g"," ","m","a","c","h","i","n","e">>, 100>>,  \* washing machine
      <<<<"b","a","t","t","e","r","i","e","s">>, 80>>,  \* batteries
      <<<<"c","h","a","r","g","e","r">>, 60>>,  \* charger
      <<<<"n","e","w","s","p","a","p","e","r">>, 18>>,  \* newspaper
      <<<<"m","a","g","a","z","i","n","e">>, 22>>,  \* magazine
      <<<<"c","a","r","d","b","o","a","r","d">>, 15>>,  \* cardboard
      <<<<"p","r","i","n","t","e","d"," ","b","o","o","k","s">>, 10>>,  \* printed books
      <<<<"l","o","w"," ","g","r","a","d","e"," ","p","a","p","e","r">>, 8>>,  \* low grade paper
      <<<<"b","o","t","t","l","e","s">>, 5>>,  \* bottles
      <<<<"b","r","o","k","e","n"," ","w","i","n","d","o","w">>, 4>>,  \* broken window
      <<<<"m","i","r","r","o","r">>, 6>>,  \* mirror
      <<<<"m","i","x","e","d"," ","m","e","t","a","l">>, 50>>,  \* mixed metal
      <<<<"m","i","x","e","d"," ","e","w","a","s","t","e">>, 80>>,  \* mixed ewaste
      <<<<"m","i","x","e","d"," ","p","a","p","e","r">>, 12>>,  \* mixed paper
      <<<<"m","i","x","e","d"," ","g","l","a","s","s">>, 5>> }  \* mixed glass

metalKeywords ==
    { <<"i","r","o","n">>,
      <<"b","r","a","s","s">>,
      <<"c","o","p","p","e","r">>,
      <<"t","i","n">>,
      <<"l","e","a","d">>,
      <<"a","l","u","m","i","n","u","m">>,
      <<"b","r","o","n","z","e">>,
      <<"z","i","n","c">>,
      <<"s","t","e","e","l">>,
      <<"n","i","c","k","e","l">> }

ewasteKeywords ==
    { <<"c","i","r","c","u","i","t">>,
      <<"c","h","i","p">>,
      <<"c","o","m","p","u","t","e","r">>,
      <<"l","a","p","t","o","p">>,
      <<"p","h","o","n","e">>,
      <<"t","v">>,
      <<"r","e","f","r","i","g","e","r","a","t","o","r">>,
      <<"w","a","s","h","i","n","g">>,
      <<"b","a","t","t","e","r">>,
      <<"c","h","a","r","g","e","r">> }

paperKeywords ==
    { <<"p","a","p","e","r">>,
      <<"b","o","o","k">>,
      <<"c","a","r","d","b","o","a","r","d">>,
      <<"m","a","g","a","z","i","n","e">>,
      <<"n","e","w","s","p","a","p","e","r">> }

glassKeywords ==
    { <<"g","l","a","s","s">>,
      <<"b","o","t","t","l","e">>,
      <<"m","i","r","r","o","r">>,
      <<"w","i","n","d","o","w">> }

Str_mixed_metal == <<"m","i","x","e","d"," ","m","e","t","a","l">>
Str_mixed_ewaste == <<"m","i","x","e","d"," ","e","w","a","s","t","e">>
Str_mixed_paper == <<"m","i","x","e","d"," ","p","a","p","e","r">>
Str_mixed_glass == <<"m","i","x","e","d"," ","g","l","a","s","s">>

\* this.basePrices[key]: the price, or undefined
basePriceOf(key) == { e[2] : e \in { x \in basePrices : x[1] = key } }

normalize(type) ==
    IF type = <<>> THEN <<>>
    ELSE replaceFirstSBoundary(trim(toLowerCase(type)))

getFallbackType(type) ==
    LET normalized == normalize(type)
    IN  IF \E m \in metalKeywords : includes(normalized, m) THEN Str_mixed_metal
        ELSE IF \E e \in ewasteKeywords : includes(normalized, e) THEN Str_mixed_ewaste
        ELSE IF \E p \in paperKeywords : includes(normalized, p) THEN Str_mixed_paper
        ELSE IF \E g \in glassKeywords : includes(normalized, g) THEN Str_mixed_glass
        ELSE Str_mixed_ewaste

\* if (!basePrice): undefined and 0 are both falsy
falsyPrice(p) == p = NoValue \/ Val(p) = 0

\* The base price predictPrice settles on, or undefined when it throws
resolveBasePrice(type) ==
    LET normalized == normalize(type)
        exact      == basePriceOf(normalized)
    IN  IF ~falsyPrice(exact) THEN exact
        ELSE LET fallback == basePriceOf(getFallbackType(normalized))
             IN  IF falsyPrice(fallback) THEN NoValue ELSE fallback

\* A draw of Math.random(), in tenths: r stands for r/10. The factors are
\* kept in hundredths: 1 + r*0.2 is (100 + 2r)/100, and so on.
randomWeightMultiplier(r) == Rat(100 + 2 * r, 100)
randomMarketTrend(r)      == Rat(90 + 2 * r, 100)
randomQuality(r)          == Rat(95 + r, 100)
randomConfidence(r)       == Rat(85 + r, 100)

\* Lines 264-281 of the local predictPrice, once the base price is known
\* (an optional price: undefined makes it throw). weight is an optional
\* integer; a product with undefined is NaN, the optional NoValue.
priceFromBase(basePrice, weight, r1, r2, r3, r4) ==
    IF basePrice = NoValue
    THEN [kind |-> "error", message |-> "Price data not available"]
    ELSE LET weightMultiplier  == randomWeightMultiplier(r1)
             marketTrend       == randomMarketTrend(r2)
             qualityAdjustment == randomQuality(r3)
             predictedPrice ==
                 IF weight = NoValue THEN NoValue
                 ELSE Some(Rat(Val(basePrice) * Val(weight) * weightMultiplier[1]
                                 * marketTrend[1] * qualityAdjustment[1],
                               1000000))
         IN  [ kind |-> "ok",
               prediction |->
                 [ predictedPrice |-> predictedPrice,
                   confidence     |-> randomConfidence(r4),
                   factors |-> [ basePrice         |-> Val(basePrice),
                                 weightMultiplier  |-> weightMultiplier,
                                 marketTrend       |-> marketTrend,
                                 qualityAdjustment |-> qualityAdjustment ] ] ]

----------------------------------------------------------------------------
\* Stand-alone calls of the estimator entry points

Str_E_Waste == <<"E"," "," ","W","a","s","t","e">>
Str_NA == <<"N","/","A">>
Str_Copper == <<"C","o","p","p","e","r">>
Str_Iron == <<"I","r","o","n">>
Str_Cardboard == <<"C","a","r","d","b","o","a","r","d">>
Str_plastic == <<"p","l","a","s","t","i","c">>
Str_wood_pallet == <<"w","o","o","d"," ","p","a","l","l","e","t">>
Str_window_glass == <<"W","i","n","d","o","w"," ","G","l","a","s","s">>
Str_brass_scrap == <<"B","r","a","s","s"," ","S","c","r","a","p"," ","(","H","o","n","e","y",")">>

\* Arguments tried on the remote entry points
EstCategories == { <<>>, Str_metal, Str_E_Waste }
EstSubCategories == { <<>>, Str_NA }
EstLeaves == { <<>>, Str_Copper }
EstWeights == { NoValue, Some(-1), Some(0), Some(2), Some(5) }

\* Answers of the prediction service
EstBasePrices == { 0, 3 }
EstPredictedPrices == { NoValue, Some(-4), Some(0), Some(7) }
EstErrorBodies ==
    { [json |-> FALSE, error |-> NoValue],           \* the body is not JSON
      [json |-> TRUE,  error |-> NoValue],           \* JSON without "error"
      [json |-> TRUE,  error |-> Some("")],          \* an empty error string
      [json |-> TRUE,  error |-> Some("unknown label")] }
EstResponses ==
    { [status |-> "ok", base_price |-> b, predicted_price |-> p] :
          b \in EstBasePrices, p \in EstPredictedPrices }
    \cup { [status |-> "fail", json |-> e.json, error |-> e.error] : e \in EstErrorBodies }
    \cup { [status |-> "reject"] }

\* Arguments tried on the local entry point: every key of the table as it
\* is, in upper case, padded with white space, in the plural and in the
\* singular, and some types that are no key.
toUpperChar(c) ==
    IF \E i \in DOMAIN LowerChars : LowerChars[i] = c
    THEN UpperChars[CHOOSE i \in DOMAIN LowerChars : LowerChars[i] = c]
    ELSE c
UpperOf(s) == [i \in DOMAIN s |-> toUpperChar(s[i])]
PaddedOf(s) == <<" ">> \o s \o <<" ", " ">>
PluralOf(s) == IF s[Len(s)] = "s" THEN s ELSE s \o <<"s">>
SingularOf(s) == IF s[Len(s)] = "s" THEN SubSeq(s, 1, Len(s) - 1) ELSE s
VariantsOf(k) == { k, UpperOf(k), PaddedOf(k), PluralOf(k), SingularOf(k) }

TableKeys == { e[1] : e \in basePrices }
LocalTypes ==
    UNION { VariantsOf(k) : k \in TableKeys }
    \cup { <<>>, Str_plastic, Str_wood_pallet, Str_window_glass, Str_brass_scrap }
LocalWeights == { NoValue, Some(-1), Some(0), Some(2) }
Str_clean_but_rusty == <<"c","l","e","a","n"," ","b","u","t"," ","r","u","s","t","y"," ","c","o","p","p","e","r"," ","w","i","r","e">>
Str_rusty_pipe == <<"r","u","s","t","y"," ","p","i","p","e">>
Str_Pure == <<"P","u","r","e">>
LocalDescriptions ==
    { NoValue, Some(Str_clean_but_rusty), Some(Str_rusty_pipe), Some(Str_Pure) }
RandomDraws == { 0, 9 }

NoCall == [entry |-> "none"]
NoResult == [kind |-> "none"]
PendingResult == [kind |-> "pending"]
InvalidResult(message) == [kind |-> "error", message |-> message]

EstInit ==
    /\ estCall = NoCall
    /\ estRequests = <<>>
    /\ estPending = FALSE
    /\ estResponse = NoValue
    /\ estResult = NoResult

\* predictPrice3, up to its await of fetch
EstCall3(scrapCategory, subCategory, subSubCategory, weight) ==
    /\ estCall = NoCall
    /\ estCall' = [entry |-> "predictPrice3", scrapCategory |-> scrapCategory,
                   subCategory |-> subCategory, subSubCategory |-> subSubCategory,
                   weight |-> weight]
    /\ estResponse' = NoValue
    /\ IF invalidInputs3(scrapCategory, subCategory, subSubCategory, weight)
       THEN /\ estRequests' = <<>>
            /\ estPending' = FALSE
            /\ estResult' = InvalidResult(InvalidInputs3Message)
       ELSE /\ estRequests' = <<requestBody3(scrapCategory, subCategory, subSubCategory, weight)>>
            /\ estPending' = TRUE
            /\ estResult' = PendingResult
    /\ UNCHANGED offEstimator

\* The remote predictPrice, up to its await of fetch
EstCall2(scrapCategory, subCategoryOrLeaf, weight) ==
    /\ estCall = NoCall
    /\ estCall' = [entry |-> "predictPrice", scrapCategory |-> scrapCategory,
                   subCategoryOrLeaf |-> subCategoryOrLeaf, weight |-> weight]
    /\ estResponse' = NoValue
    /\ IF invalidInputs(scrapCategory, subCategoryOrLeaf, weight)
       THEN /\ estRequests' = <<>>
            /\ estPending' = FALSE
            /\ estResult' = InvalidResult(InvalidInputsMessage)
       ELSE /\ estRequests' = <<requestBody(scrapCategory, subCategoryOrLeaf, weight)>>
            /\ estPending' = TRUE
            /\ estResult' = PendingResult
    /\ UNCHANGED offEstimator

\* fetch settles and the remote entry point runs to its end
EstRespond(resp) ==
    /\ estPending
    /\ estPending' = FALSE
    /\ estResponse' = Some(resp)
    /\ estResult' = settle(resp, Val(estCall.weight))
    /\ UNCHANGED <<estCall, estRequests>>
    /\ UNCHANGED offEstimator

\* The local predictPrice(type, weight, description): no await inside, it
\* runs in one step. The description is not read. The base price depends on
\* the type alone and is resolved once for all weights and draws.
EstCallLocal(type) ==
    /\ estCall = NoCall
    /\ LET basePrice == resolveBasePrice(type)
       IN  \E w \in LocalWeights, d \in LocalDescriptions,
           r1 \in RandomDraws, r2 \in RandomDraws, r3 \in RandomDraws, r4 \in RandomDraws :
            /\ estCall' = [entry |-> "predictPriceLocal", type |-> type, weight |-> w,
                           description |-> d]
            /\ estRequests' = <<>>
            /\ estPending' = FALSE
            /\ estResponse' = NoValue
            /\ estResult' = priceFromBase(basePrice, w, r1, r2, r3, r4)
    /\ UNCHANGED offEstimator

\* The caller has taken the result or the error; the next call may start
EstReturn ==
    /\ estCall # NoCall
    /\ ~estPending
    /\ estCall' = NoCall
    /\ estRequests' = <<>>
    /\ estResponse' = NoValue
    /\ estResult' = NoResult
    /\ UNCHANGED estPending
    /\ UNCHANGED offEstimator

EstNext ==
    \/ \E c \in EstCategories, s \in EstSubCategories, l \in EstLeaves, w \in EstWeights :
           EstCall3(c, s, l, w)
    \/ \E c \in EstCategories, l \in EstLeaves, w \in EstWeights : EstCall2(c, l, w)
    \/ \E resp \in EstResponses : EstRespond(resp)
    \/ \E t \in LocalTypes : EstCallLocal(t)
    \/ EstReturn

----------------------------------------------------------------------------
\* ListScrapPage.tsx: the selection handlers and the aggregator

\* Slots for invocations of handlePredictPrice that run at the same time
MaxCalls == 2

\* How many edits of the selection the user makes while an invocation of
\* handlePredictPrice awaits the service
MaxEditsInFlight == 1

\* The part of HIERARCHY the page is exercised with: two categories, three
\* leaves, two of them in one category
Categories == { Str_metal, Str_paper }
Catalog ==
    { [category |-> Str_metal, subcategory |-> "Non-Ferrous Metals", leaf |-> Str_Copper],
      [category |-> Str_metal, subcategory |-> "Ferrous Metals",     leaf |-> Str_Iron],
      [category |-> Str_paper, subcategory |-> "Cardboard & Packaging", leaf |-> Str_Cardboard] }

\* parseFloat(e.target.value) || 0: any number, never NaN
PageWeights == { 0, 2 }

\* What the service answers the page: a price per kg for the label of the
\* request and the price of the weight asked for, or an error
LabelPrice(label) ==
    CASE label = Str_Copper    -> 7
      [] label = Str_Iron      -> 3
      [] label = Str_Cardboard -> 1

PageResponses(body) ==
    { [status |-> "ok", base_price |-> LabelPrice(body.sub_category),
       predicted_price |-> Some(LabelPrice(body.sub_category) * body.weight)],
      [status |-> "fail", json |-> TRUE, error |-> Some("unknown label")] }

PickLeavesAlert == "Pick at least one sub-subcategory and enter weights."
PredictionFailedAlert ==
    "Prediction failed. Ensure your RF backend is running and recognizes these labels."

EmptyBreakdown == [c \in {} |-> [weight |-> 0, price |-> 0]]

IdleCall == [pc |-> "idle"]

sameLeaf(s, category, subcategory, leaf) ==
    s.category = category /\ s.subcategory = subcategory /\ s.leaf = leaf

PageInit ==
    /\ selectedCategories = <<>>
    /\ selectedLeaves = <<>>
    /\ predicting = FALSE
    /\ predictedTotal = NoValue
    /\ priceBreakdown = EmptyBreakdown
    /\ needsRecalc = TRUE
    /\ calls = [id \in 1..MaxCalls |-> IdleCall]
    /\ net = {}
    /\ editsInFlight = 0
    /\ lastStep = [kind |-> "init", alert |-> ""]

Running == \E id \in DOMAIN calls : calls[id].pc # "idle"

\* An edit of the selection: counted while an invocation runs
CountEdit ==
    IF Running
    THEN editsInFlight < MaxEditsInFlight /\ editsInFlight' = editsInFlight + 1
    ELSE UNCHANGED editsInFlight

Edited == [kind |-> "edit", alert |-> ""]

\* toggleCategory, by a category button (one per key of HIERARCHY)
toggleCategory(cat) ==
    /\ CountEdit
    /\ predictedTotal' = NoValue
    /\ needsRecalc' = TRUE
    /\ IF cat \in Range(selectedCategories)
       THEN /\ selectedCategories' = SelectSeq(selectedCategories, LAMBDA c : c # cat)
            /\ selectedLeaves' = SelectSeq(selectedLeaves, LAMBDA l : l.category # cat)
       ELSE /\ selectedCategories' = Append(selectedCategories, cat)
            /\ UNCHANGED selectedLeaves
    /\ lastStep' = Edited
    /\ UNCHANGED <<predicting, priceBreakdown, calls, net>>
    /\ UNCHANGED offPage

\* toggleLeaf, by a leaf chip; the chips of a category are rendered only
\* while the category is selected. (The accordion state openSubcats only
\* folds the chips away and is left out: a sub-category can always be opened.)
toggleLeaf(category, subcategory, leaf) ==
    /\ CountEdit
    /\ category \in Range(selectedCategories)
    /\ predictedTotal' = NoValue
    /\ needsRecalc' = TRUE
    /\ IF \E i \in DOMAIN selectedLeaves : sameLeaf(selectedLeaves[i], category, subcategory, leaf)
       THEN selectedLeaves' =
                SelectSeq(selectedLeaves, LAMBDA l : ~sameLeaf(l, category, subcategory, leaf))
       ELSE selectedLeaves' =
                Append(selectedLeaves,
                       [category |-> category, subcategory |-> subcategory, leaf |-> leaf,
                        weight |-> 0, predictedPrice |-> NoValue])
    /\ lastStep' = Edited
    /\ UNCHANGED <<selectedCategories, predicting, priceBreakdown, calls, net>>
    /\ UNCHANGED offPage

\* handleWeightChange, mutated: the predicted total is kept
handleWeightChangeMutantKeepsTotal(category, subcategory, leaf, weight) ==
    /\ CountEdit
    /\ category \in Range(selectedCategories)
    /\ \E i \in DOMAIN selectedLeaves : sameLeaf(selectedLeaves[i], category, subcategory, leaf)
    /\ needsRecalc' = TRUE
    /\ selectedLeaves' =
           [i \in DOMAIN selectedLeaves |->
               IF sameLeaf(selectedLeaves[i], category, subcategory, leaf)
               THEN [selectedLeaves[i] EXCEPT !.weight = weight]
               ELSE selectedLeaves[i]]
    /\ lastStep' = Edited
    /\ UNCHANGED <<selectedCategories, predicting, predictedTotal, priceBreakdown, calls, net>>
    /\ UNCHANGED offPage

\* handleWeightChange, by the weight input of a selected leaf; the input is
\* rendered under the leaf's category, while that category is selected
handleWeightChange(category, subcategory, leaf, weight) ==
    /\ CountEdit
    /\ category \in Range(selectedCategories)
    /\ \E i \in DOMAIN selectedLeaves : sameLeaf(selectedLeaves[i], category, subcategory, leaf)
    /\ predictedTotal' = NoValue
    /\ needsRecalc' = TRUE
    /\ selectedLeaves' =
           [i \in DOMAIN selectedLeaves |->
               IF sameLeaf(selectedLeaves[i], category, subcategory, leaf)
               THEN [selectedLeaves[i] EXCEPT !.weight = weight]
               ELSE selectedLeaves[i]]
    /\ lastStep' = Edited
    /\ UNCHANGED <<selectedCategories, predicting, priceBreakdown, calls, net>>
    /\ UNCHANGED offPage

\* ---- handlePredictPrice

\* A fresh invocation: the closure's selectedLeaves and the locals
newCall(items) ==
    [pc |-> "run", items |-> items, i |-> 1, total |-> 0,
     breakdown |-> EmptyBreakdown, updated |-> <<>>, sent |-> <<>>, message |-> ""]

\* if (item.weight > 0)
estimableMutantNonNegative(item) == item.weight >= 0

estimable(item) == item.weight > 0

\* breakdown[cat] = breakdown[cat] || {weight: 0, price: 0}; += weight; += price
addToBreakdownMutantOverwrite(breakdown, category, weight, price) ==
    [c \in DOMAIN breakdown \cup {category} |->
        IF c = category THEN [weight |-> weight, price |-> price] ELSE breakdown[c]]

addToBreakdown(breakdown, category, weight, price) ==
    [c \in DOMAIN breakdown \cup {category} |->
        IF c = category
        THEN LET old == IF c \in DOMAIN breakdown THEN breakdown[c]
                        ELSE [weight |-> 0, price |-> 0]
             IN  [weight |-> old.weight + weight, price |-> old.price + price]
        ELSE breakdown[c]]

\* The for loop from item c.i on, up to the next await of fetch ("await"),
\* to a throw of predictPrice before its fetch ("threw") or to the end of
\* the loop ("done"); a leaf that is not estimated is pushed as it is
RECURSIVE advance(_)
advance(c) ==
    IF c.i > Len(c.items) THEN [c EXCEPT !.pc = "done"]
    ELSE LET item == c.items[c.i]
         IN  IF estimable(item)
             THEN IF invalidInputs(item.category, item.leaf, Some(item.weight))
                  THEN [c EXCEPT !.pc = "threw", !.message = InvalidInputsMessage]
                  ELSE [c EXCEPT !.pc = "await"]
             ELSE advance([c EXCEPT !.updated = Append(@, item), !.i = @ + 1])

\* The loop body after the await: res is the PricePrediction returned
afterEstimate(c, res) ==
    LET item == c.items[c.i]
    IN  [c EXCEPT !.total = @ + res.predictedPrice,
                  !.updated = Append(@, [item EXCEPT !.predictedPrice = Some(res.predictedPrice)]),
                  !.breakdown = addToBreakdown(@, item.category, item.weight, res.predictedPrice),
                  !.i = @ + 1]

\* The rejection of the awaited predictPrice, thrown into the try block
afterErrorMutantRetry(c, message) == [c EXCEPT !.pc = "await"]

afterError(c, message) == [c EXCEPT !.pc = "threw", !.message = message]

\* The request predictPrice sends for the item the invocation waits on
requestOf(id, c) ==
    LET item == c.items[c.i]
    IN  [call |-> id, item |-> c.i,
         body |-> requestBody(item.category, item.leaf, Some(item.weight))]

\* The invocation suspends on fetch
BatchAwait(id, c, netBase, pred) ==
    /\ calls' = [calls EXCEPT ![id] = [c EXCEPT !.sent = Append(@, c.i)]]
    /\ net' = netBase \cup {requestOf(id, c)}
    /\ predicting' = pred
    /\ lastStep' = [kind |-> "requested", call |-> id, item |-> c.i, alert |-> ""]
    /\ UNCHANGED editsInFlight
    /\ UNCHANGED <<selectedCategories, selectedLeaves, predictedTotal, priceBreakdown,
                   needsRecalc>>

\* The end of the try block, then finally
BatchCommit(id, c, netBase) ==
    /\ selectedLeaves' = c.updated
    /\ predictedTotal' = Some(c.total)
    /\ priceBreakdown' = c.breakdown
    /\ needsRecalc' = FALSE
    /\ predicting' = FALSE
    /\ calls' = [calls EXCEPT ![id] = IdleCall]
    /\ net' = netBase
    /\ editsInFlight' = IF \E other \in DOMAIN calls : other # id /\ calls[other].pc # "idle"
                        THEN editsInFlight ELSE 0
    /\ lastStep' = [kind |-> "committed", call |-> id, items |-> c.items,
                    sent |-> c.sent, alert |-> ""]
    /\ UNCHANGED selectedCategories

\* The catch block, then finally
BatchFailMutantPartialCommit(id, c, netBase) ==
    /\ selectedLeaves' = c.updated
    /\ predictedTotal' = Some(c.total)
    /\ priceBreakdown' = c.breakdown
    /\ needsRecalc' = FALSE
    /\ predicting' = FALSE
    /\ calls' = [calls EXCEPT ![id] = IdleCall]
    /\ net' = netBase
    /\ editsInFlight' = IF \E other \in DOMAIN calls : other # id /\ calls[other].pc # "idle"
                        THEN editsInFlight ELSE 0
    /\ lastStep' = [kind |-> "failed", call |-> id, items |-> c.items, sent |-> c.sent,
                    updated |-> c.updated, message |-> c.message,
                    alert |-> PredictionFailedAlert]
    /\ UNCHANGED selectedCategories

\* The catch block, mutated: without the finally block
BatchFailMutantStaysPredicting(id, c, netBase) ==
    /\ calls' = [calls EXCEPT ![id] = IdleCall]
    /\ net' = netBase
    /\ editsInFlight' = IF \E other \in DOMAIN calls : other # id /\ calls[other].pc # "idle"
                        THEN editsInFlight ELSE 0
    /\ lastStep' = [kind |-> "failed", call |-> id, items |-> c.items, sent |-> c.sent,
                    updated |-> c.updated, message |-> c.message,
                    alert |-> PredictionFailedAlert]
    /\ UNCHANGED <<selectedCategories, selectedLeaves, predicting, predictedTotal,
                   priceBreakdown, needsRecalc>>

BatchFail(id, c, netBase) ==
    /\ predicting' = FALSE
    /\ calls' = [calls EXCEPT ![id] = IdleCall]
    /\ net' = netBase
    /\ editsInFlight' = IF \E other \in DOMAIN calls : other # id /\ calls[other].pc # "idle"
                        THEN editsInFlight ELSE 0
    /\ lastStep' = [kind |-> "failed", call |-> id, items |-> c.items, sent |-> c.sent,
                    updated |-> c.updated, message |-> c.message,
                    alert |-> PredictionFailedAlert]
    /\ UNCHANGED <<selectedCategories, selectedLeaves, predictedTotal, priceBreakdown,
                   needsRecalc>>

\* handlePredictPrice runs on from the state c of its locals
Continue(id, c, netBase, pred) ==
    CASE c.pc = "await" -> BatchAwait(id, c, netBase, pred)
      [] c.pc = "done"  -> BatchCommit(id, c, netBase)
      [] c.pc = "threw" -> BatchFail(id, c, netBase)

\* disabled={predicting || selectedLeaves.length === 0 || needsRecalc === false}
PredictDisabledMutantIgnoresPredicting ==
    Len(selectedLeaves) = 0 \/ needsRecalc = FALSE

PredictDisabled == predicting \/ Len(selectedLeaves) = 0 \/ needsRecalc = FALSE

FreeSlots == { id \in DOMAIN calls : calls[id].pc = "idle" }

\* A click on the Predict button: handlePredictPrice up to its first await,
\* or to its end when no leaf has a positive weight
ClickPredict ==
    /\ ~PredictDisabled
    /\ FreeSlots # {}
    /\ LET id == CHOOSE x \in FreeSlots : \A y \in FreeSlots : x <= y
       IN  IF Len(selectedLeaves) = 0
           THEN /\ lastStep' = [kind |-> "alert", alert |-> PickLeavesAlert]
                /\ UNCHANGED <<selectedCategories, selectedLeaves, predicting, predictedTotal,
                               priceBreakdown, needsRecalc, calls, net, editsInFlight>>
           ELSE Continue(id, advance(newCall(selectedLeaves)), net, TRUE)
    /\ UNCHANGED offPage

\* The service answers a request and the invocation that awaits it runs on
ServiceResponds(req, resp) ==
    /\ req \in net
    /\ LET c   == calls[req.call]
           res == settle(resp, c.items[c.i].weight)
       IN  IF res.kind = "ok"
           THEN Continue(req.call, advance(afterEstimate(c, res.prediction)),
                         net \ {req}, predicting)
           ELSE Continue(req.call, afterError(c, res.message), net \ {req}, predicting)
    /\ UNCHANGED offPage

ServiceAnswers ==
    \E req \in net : \E resp \in PageResponses(req.body) : ServiceResponds(req, resp)

Next ==
    \/ \E cat \in Categories : toggleCategory(cat)
    \/ \E l \in Catalog : toggleLeaf(l.category, l.subcategory, l.leaf)
    \/ \E l \in Catalog, w \in PageWeights :
           handleWeightChange(l.category, l.subcategory, l.leaf, w)
    \/ ClickPredict
    \/ ServiceAnswers

\* The page with the leaves of one category, for what is checked of the
\* progress of handlePredictPrice
PredictCategories == { Str_metal }
PredictCatalog == { l \in Catalog : l.category = Str_metal }

PredictNext ==
    \/ \E cat \in PredictCategories : toggleCategory(cat)
    \/ \E l \in PredictCatalog : toggleLeaf(l.category, l.subcategory, l.leaf)
    \/ \E l \in PredictCatalog, w \in PageWeights :
           handleWeightChange(l.category, l.subcategory, l.leaf, w)
    \/ ClickPredict
    \/ ServiceAnswers

----------------------------------------------------------------------------
\* unnamed/part_009 and DatasetManagement.tsx: the price tables and the
\* ingestion of a dataset. Prices are decimal(10, 2): they are kept in
\* hundredths (25.50 is 2550).

\* How many datasets are uploaded
MaxUploads == 1

\* How many records of a dataset are processed
MaxRecords == 2

InitialSetup == "Initial Setup"
DefaultLocation == "India"
FileName == "prices.json"

\* INSERT INTO metal_prices ... ('Iron', 25.50, 'Initial Setup'), ...
SeedPrices ==
    { <<"Iron", 2550>>, <<"Aluminum", 14500>>, <<"Copper", 72000>>, <<"Steel", 3500>>,
      <<"Brass", 42000>>, <<"Bronze", 48000>>, <<"Lead", 18000>>, <<"Zinc", 22000>>,
      <<"Nickel", 125000>>, <<"Tin", 280000>> }

\* price_id is gen_random_uuid(): a value no row has yet
freshPriceId(table) == Cardinality(table) + 1

RECURSIVE seedRows(_, _)
seedRows(table, seeds) ==
    IF seeds = {} THEN table
    ELSE LET e == CHOOSE x \in seeds : TRUE
         IN  seedRows(table \cup { [price_id |-> freshPriceId(table), metal_type |-> e[1],
                                    current_price |-> e[2], market_location |-> DefaultLocation,
                                    data_source |-> InitialSetup] },
                      seeds \ {e})

\* CHECK (current_price >= 0), CHECK (price >= 0)
checkViolation(price) == price < 0

\* UNIQUE(metal_type, market_location), mutated: not enforced
uniqueViolationMutantNotEnforced(table, row) == FALSE

\* UNIQUE(metal_type, market_location)
uniqueViolation(table, row) ==
    \E r \in table : /\ r.metal_type = row.metal_type
                     /\ r.market_location = row.market_location

\* supabase.from('metal_prices').upsert(row) without onConflict: the
\* conflict target is the primary key price_id, which the row does not
\* carry, so the row is inserted under a fresh price_id, and the statement
\* fails when a constraint of the table rejects it. The error comes back in
\* the result, which handleUpload does not read.
upsertOutcome(table, row) ==
    IF checkViolation(row.current_price) THEN "check_violation"
    ELSE IF uniqueViolation(table, row) THEN "unique_violation"
    ELSE "inserted"

upsert(table, row) ==
    IF upsertOutcome(table, row) = "inserted"
    THEN table \cup { [price_id |-> freshPriceId(table), metal_type |-> row.metal_type,
                       current_price |-> row.current_price,
                       market_location |-> row.market_location,
                       data_source |-> row.data_source] }
    ELSE table

\* supabase.from('price_history').insert(point)
insertHistoryOutcome(point) ==
    IF checkViolation(point.price) THEN "check_violation" ELSE "inserted"

insertHistory(history, point) ==
    IF insertHistoryOutcome(point) = "inserted" THEN Append(history, point) ELSE history

\* The records of a dataset, as JSON.parse or processCSVData hands them to
\* the loop: a field that is absent is NoValue; the price fields are
\* numbers; date is "none", "valid" or "invalid" (new Date(date) is an
\* Invalid Date, whose toISOString throws).
IngestRecord(metal_type, metal, price, rate, place, date) ==
    [metal_type |-> metal_type, metal |-> metal, price |-> price, rate |-> rate,
     location |-> place, date |-> date]

IngestRecords ==
    { IngestRecord(Some("Iron"), NoValue, Some(3000), NoValue, NoValue, "none"),
      IngestRecord(Some("Gold"), NoValue, Some(500000), NoValue, Some("Delhi"), "valid"),
      IngestRecord(Some("Gold"), NoValue, Some(600000), NoValue, Some("Delhi"), "none"),
      IngestRecord(NoValue, Some("Tin"), NoValue, Some(290000), NoValue, "none"),
      IngestRecord(NoValue, NoValue, Some(3000), NoValue, NoValue, "none"),
      IngestRecord(Some(""), NoValue, Some(3000), NoValue, NoValue, "none"),
      IngestRecord(Some("Iron"), NoValue, NoValue, NoValue, NoValue, "none"),
      IngestRecord(Some("Silver"), NoValue, Some(-100), NoValue, NoValue, "none"),
      IngestRecord(Some("Silver"), NoValue, Some(7000), NoValue, NoValue, "invalid"),
      IngestRecord(Some("Lead"), NoValue, Some(0), NoValue, NoValue, "none") }

\* a || b on optional strings: the empty string is falsy
orString(a, b) == IF a # NoValue /\ Val(a) # "" THEN a ELSE b

\* a || b on optional numbers: 0 is falsy
orNumber(a, b) == IF a # NoValue /\ Val(a) # 0 THEN a ELSE b

\* record.metal_type || record.metaltype || record.metal
metalTypeOf(record) == orString(record.metal_type, record.metal)

\* parseFloat(record.price || record.current_price || record.rate): NaN
\* (NoValue) when none of them is truthy
priceOf(record) == orNumber(record.price, record.rate)

\* metalType && !isNaN(price)
accepted(record) ==
    LET metalType == metalTypeOf(record)
    IN  /\ metalType # NoValue
        /\ Val(metalType) # ""
        /\ priceOf(record) # NoValue

\* record.location || record.market || 'India'
marketLocationOf(record) == Val(orString(record.location, Some(DefaultLocation)))

priceRowOf(record) ==
    [metal_type |-> Val(metalTypeOf(record)), current_price |-> Val(priceOf(record)),
     data_source |-> FileName, market_location |-> marketLocationOf(record)]

historyPointOf(record) ==
    [metal_type |-> Val(metalTypeOf(record)), price |-> Val(priceOf(record)),
     data_source |-> FileName, market_location |-> marketLocationOf(record),
     price_date |-> IF record.date = "valid" THEN "date of the record" ELSE "now"]

NoUpload == [pc |-> "idle"]

AdminInit ==
    /\ metal_prices = seedRows({}, SeedPrices)
    /\ price_history = <<>>
    /\ dataset_uploads = <<>>
    /\ price_predictions = <<>>
    /\ uploading = FALSE
    /\ currentPrices = {}
    /\ upload = NoUpload
    /\ lastIngest = [kind |-> "init"]

\* fetchData: select * from dataset_uploads and from metal_prices
fetchData == currentPrices' = metal_prices'

\* handleUpload, from the click to the loop: the file is read and parsed
\* and the upload record is inserted; a file that does not parse, or an
\* upload record that is refused, ends the invocation in the outer catch.
handleUpload(outcome) ==
    /\ ~uploading
    /\ upload = NoUpload
    /\ Len(dataset_uploads) < MaxUploads
    /\ IF outcome = "ok"
       THEN /\ uploading' = TRUE
            /\ dataset_uploads' = Append(dataset_uploads,
                   [filename |-> FileName, processing_status |-> "processing",
                    records_processed |-> 0])
            /\ upload' = [pc |-> "records", upload_id |-> Len(dataset_uploads) + 1,
                          processed |-> 0, successCount |-> 0]
            /\ lastIngest' = [kind |-> "started"]
       ELSE /\ uploading' = FALSE
            /\ UNCHANGED <<dataset_uploads, upload>>
            /\ lastIngest' = [kind |-> "upload failed", why |-> outcome]
    /\ UNCHANGED <<metal_prices, price_history, price_predictions, currentPrices>>
    /\ UNCHANGED offAdmin

\* One turn of the loop over processedData
processRecord(record) ==
    /\ upload.pc = "records"
    /\ upload.processed < MaxRecords
    /\ IF ~accepted(record)
       THEN /\ UNCHANGED <<metal_prices, price_history>>
            /\ upload' = [upload EXCEPT !.processed = @ + 1]
            /\ lastIngest' = [kind |-> "record", record |-> record, accepted |-> FALSE,
                              upsert |-> "none", history |-> "none", counted |-> FALSE]
       ELSE /\ metal_prices' = upsert(metal_prices, priceRowOf(record))
            /\ IF record.date = "invalid"
               THEN \* toISOString throws: the inner catch logs the record
                    /\ UNCHANGED price_history
                    /\ upload' = [upload EXCEPT !.processed = @ + 1]
                    /\ lastIngest' = [kind |-> "record", record |-> record, accepted |-> TRUE,
                                      upsert |-> upsertOutcome(metal_prices, priceRowOf(record)),
                                      history |-> "threw", counted |-> FALSE]
               ELSE /\ price_history' = insertHistory(price_history, historyPointOf(record))
                    /\ upload' = [upload EXCEPT !.processed = @ + 1, !.successCount = @ + 1]
                    /\ lastIngest' = [kind |-> "record", record |-> record, accepted |-> TRUE,
                                      upsert |-> upsertOutcome(metal_prices, priceRowOf(record)),
                                      history |-> insertHistoryOutcome(historyPointOf(record)),
                                      counted |-> TRUE]
    /\ UNCHANGED <<dataset_uploads, price_predictions, uploading, currentPrices>>
    /\ UNCHANGED offAdmin

\* The loop is over: the upload record is completed, the prices are
\* fetched again and the finally block runs
finishUpload ==
    /\ upload.pc = "records"
    /\ dataset_uploads' = [dataset_uploads EXCEPT ![upload.upload_id] =
                               [@ EXCEPT !.processing_status = "completed",
                                         !.records_processed = upload.successCount]]
    /\ UNCHANGED <<metal_prices, price_history, price_predictions>>
    /\ fetchData
    /\ uploading' = FALSE
    /\ upload' = NoUpload
    /\ lastIngest' = [kind |-> "finished", successCount |-> upload.successCount]
    /\ UNCHANGED offAdmin

UploadOutcomes == { "ok", "parse error", "upload record refused" }

IngestNext ==
    \/ \E outcome \in UploadOutcomes : handleUpload(outcome)
    \/ \E record \in IngestRecords : processRecord(record)
    \/ finishUpload

----------------------------------------------------------------------------
\* The market data cache (spec 4.1). Its code is not among the sources:
\* getCurrentPrices is written from the specification. Time is in minutes.

\* Cache TTL: 5 minutes
TTL == 5

\* The clock stops here
MaxTime == 11

\* What the data source may hold
SourcePrices ==
    { [material_type |-> "Iron", current_price |-> 2550, data_source |-> InitialSetup],
      [material_type |-> "Copper", current_price |-> 72000, data_source |-> FileName] }

\* What the data source answers a fetch: a list of prices (it may be
\* empty), or a failure. The specification says of a failure that the call
\* returns an empty list; whether the cache was cleared before the fetch
\* (clear-then-repopulate) is left open, so both are modelled.
SourceAnswers ==
    { [ok |-> TRUE, prices |-> P] : P \in SUBSET SourcePrices }
    \cup { [ok |-> FALSE, cleared |-> c] : c \in BOOLEAN }

CacheInit ==
    /\ cache = {}
    /\ lastCacheUpdate = 0
    /\ now = TTL
    /\ lastGet = [kind |-> "init"]

\* The cache is served whatever its age
cacheFreshMutantIgnoresTTL == cache # {}

\* now - lastCacheUpdate < TTL and cache is non-empty
cacheFresh == now - lastCacheUpdate < TTL /\ cache # {}

Tick ==
    /\ now < MaxTime
    /\ now' = now + 1
    /\ UNCHANGED <<cache, lastCacheUpdate, lastGet>>
    /\ UNCHANGED offCache

\* getCurrentPrices(): the cached entries, or a full refresh
getCurrentPrices(answer) ==
    /\ IF cacheFresh
       THEN /\ UNCHANGED <<cache, lastCacheUpdate>>
            /\ lastGet' = [kind |-> "get", at |-> now, fetched |-> FALSE, refreshed |-> FALSE,
                           returned |-> cache]
       ELSE IF answer.ok
       THEN /\ cache' = answer.prices
            /\ lastCacheUpdate' = now
            /\ lastGet' = [kind |-> "get", at |-> now, fetched |-> TRUE, refreshed |-> TRUE,
                           returned |-> answer.prices]
       ELSE /\ cache' = IF answer.cleared THEN {} ELSE cache
            /\ UNCHANGED lastCacheUpdate
            /\ lastGet' = [kind |-> "get", at |-> now, fetched |-> TRUE, refreshed |-> FALSE,
                           returned |-> {}]
    /\ UNCHANGED now
    /\ UNCHANGED offCache

CacheNext ==
    \/ Tick
    \/ \E answer \in SourceAnswers : getCurrentPrices(answer)

----------------------------------------------------------------------------
\* ListScrapPage.tsx: the profile, the description, the location and
\* handleSubmit

\* How many listings are created
MaxListings == 1

\* The part of HIERARCHY, the places and the texts the submission is
\* exercised with
SubmitCategories == { Str_metal }
SubmitCatalog == { l \in Catalog : l.category = Str_metal }
\* The weight a leaf is given; a leaf just toggled on has weight 0
SubmitWeights == { 2 }
SubmitLocations == { <<12, 77>> }
SubmitDescriptions == { "copper wire" }
SubmitProfiles == { [user_id |-> "u1"] }

CompleteSelectionAlert == "Please complete category and item selection."
PredictFirstAlert == "Please predict price before submitting."
SelectLocationAlert == "Please select a location."
ListingCreatedAlert == "Scrap listing created successfully!"
ListingErrorAlert == "Error creating listing."

SubmitInit ==
    /\ profile = NoValue
    /\ location = NoValue
    /\ description = ""
    /\ loading = FALSE
    /\ submitting = NoValue
    /\ scrap_listings = <<>>

\* useAuth() hands the page the profile once it is loaded
profileLoads(p) ==
    /\ profile = NoValue
    /\ profile' = Some(p)
    /\ lastStep' = [kind |-> "profile", alert |-> ""]
    /\ UNCHANGED <<selectedCategories, selectedLeaves, predicting, predictedTotal,
                   priceBreakdown, needsRecalc, calls, net, editsInFlight>>
    /\ UNCHANGED <<location, description, loading, submitting, scrap_listings>>
    /\ UNCHANGED offSubmit

\* The description's onChange
onDescriptionChange(text) ==
    /\ CountEdit
    /\ description' = text
    /\ needsRecalc' = TRUE
    /\ predictedTotal' = NoValue
    /\ lastStep' = Edited
    /\ UNCHANGED <<selectedCategories, selectedLeaves, predicting, priceBreakdown, calls, net>>
    /\ UNCHANGED <<profile, location, loading, submitting, scrap_listings>>
    /\ UNCHANGED offSubmit

\* onLocationSelect, mutated: the prediction stays locked
onLocationSelectMutantKeepsLock(place) ==
    /\ CountEdit
    /\ location' = Some(place)
    /\ lastStep' = Edited
    /\ UNCHANGED <<selectedCategories, selectedLeaves, predicting, predictedTotal,
                   priceBreakdown, needsRecalc, calls, net>>
    /\ UNCHANGED <<profile, description, loading, submitting, scrap_listings>>
    /\ UNCHANGED offSubmit

\* LocationPicker's onLocationSelect: the predicted total stays
onLocationSelect(place) ==
    /\ CountEdit
    /\ location' = Some(place)
    /\ needsRecalc' = TRUE
    /\ lastStep' = Edited
    /\ UNCHANGED <<selectedCategories, selectedLeaves, predicting, predictedTotal,
                   priceBreakdown, calls, net>>
    /\ UNCHANGED <<profile, description, loading, submitting, scrap_listings>>
    /\ UNCHANGED offSubmit

\* !predictedTotal: null and 0 are both falsy
noPredictedTotal == predictedTotal = NoValue \/ Val(predictedTotal) = 0

\* The Create Listing button: disabled={loading || !predictedTotal}
SubmitDisabled == loading \/ noPredictedTotal

\* The three guards of handleSubmit, mutated: the location is not asked for
submitRefusalMutantNoLocationCheck ==
    IF Len(selectedCategories) = 0 \/ Len(selectedLeaves) = 0 \/ profile = NoValue
    THEN CompleteSelectionAlert
    ELSE IF noPredictedTotal THEN PredictFirstAlert
    ELSE ""

\* The three guards of handleSubmit: the alert it returns with, or "" when
\* it goes on to the insert
submitRefusal ==
    IF Len(selectedCategories) = 0 \/ Len(selectedLeaves) = 0 \/ profile = NoValue
    THEN CompleteSelectionAlert
    ELSE IF noPredictedTotal THEN PredictFirstAlert
    ELSE IF location = NoValue THEN SelectLocationAlert
    ELSE ""

RECURSIVE totalWeightOf(_)
totalWeightOf(leaves) ==
    IF leaves = <<>> THEN 0 ELSE Head(leaves).weight + totalWeightOf(Tail(leaves))

\* The row handleSubmit inserts into scrap_listings
listingRow ==
    [user_id |-> IF profile = NoValue THEN NoValue ELSE Some(Val(profile).user_id),
     scrap_type |-> selectedCategories,
     description |-> description,
     weight |-> totalWeightOf(selectedLeaves),
     estimated_price |-> predictedTotal,
     place |-> location]

\* A click on the Create Listing button: handleSubmit up to its await
handleSubmit ==
    /\ ~SubmitDisabled
    /\ Len(scrap_listings) < MaxListings
    /\ IF submitRefusal # ""
       THEN /\ lastStep' = [kind |-> "submit refused", alert |-> submitRefusal]
            /\ UNCHANGED <<loading, submitting>>
       ELSE /\ loading' = TRUE
            /\ submitting' = Some(listingRow)
            /\ lastStep' = [kind |-> "submit sent", alert |-> ""]
    /\ UNCHANGED <<selectedCategories, selectedLeaves, predicting, predictedTotal,
                   priceBreakdown, needsRecalc, calls, net, editsInFlight>>
    /\ UNCHANGED <<profile, location, description, scrap_listings>>
    /\ UNCHANGED offSubmit

\* The insert settles. With an error handleSubmit alerts and stays; without
\* one it alerts, navigates to /my-listings and the page is unmounted: its
\* state is gone, and what follows is the page as mounted anew.
insertSettles(answer) ==
    /\ submitting # NoValue
    /\ submitting' = NoValue
    /\ loading' = FALSE
    /\ IF answer = "ok"
       THEN /\ scrap_listings' = Append(scrap_listings, Val(submitting))
            /\ lastStep' = [kind |-> "listing created", alert |-> ListingCreatedAlert]
            /\ selectedCategories' = <<>>
            /\ selectedLeaves' = <<>>
            /\ predicting' = FALSE
            /\ predictedTotal' = NoValue
            /\ priceBreakdown' = EmptyBreakdown
            /\ needsRecalc' = TRUE
            /\ calls' = [id \in DOMAIN calls |-> IdleCall]
            /\ net' = {}
            /\ editsInFlight' = 0
            /\ location' = NoValue
            /\ description' = ""
       ELSE /\ lastStep' = [kind |-> "listing failed", alert |-> ListingErrorAlert]
            /\ UNCHANGED <<selectedCategories, selectedLeaves, predicting, predictedTotal,
                           priceBreakdown, needsRecalc, calls, net, editsInFlight>>
            /\ UNCHANGED <<location, description, scrap_listings>>
    /\ UNCHANGED profile
    /\ UNCHANGED offSubmit

InsertAnswers == { "ok", "error" }

SubmitNext ==
    \/ \E cat \in SubmitCategories : toggleCategory(cat)
    \/ \E l \in SubmitCatalog : toggleLeaf(l.category, l.subcategory, l.leaf)
    \/ \E l \in SubmitCatalog, w \in SubmitWeights :
           handleWeightChange(l.category, l.subcategory, l.leaf, w)
    \/ ClickPredict
    \/ ServiceAnswers
    \/ \E p \in SubmitProfiles : profileLoads(p)
    \/ \E text \in SubmitDescriptions : onDescriptionChange(text)
    \/ \E place \in SubmitLocations : onLocationSelect(place)
    \/ handleSubmit
    \/ \E answer \in InsertAnswers : insertSettles(answer)

----------------------------------------------------------------------------
\* useAuth.tsx and App.tsx: AuthProvider, the admin sign-in and the routes.
\* What supabase-js does is outside the repository: getSession returns the
\* session the browser keeps or throws, and whether onAuthStateChange calls
\* back at once with that session (INITIAL_SESSION), or calls back on a
\* sign-out without a session, is left open.

\* How many notifications of onAuthStateChange can be waiting
MaxAuthEvents == 1

UserIds == { "u1" }
AdminUser == [id |-> "admin1", email |-> "admin@scraplink"]
HomePath == "/"
AdminLoginPath == "/admin-login"
AdminDashboardPath == "/admin/dashboard"
Paths == { HomePath, AdminLoginPath, AdminDashboardPath }
AdminPaths == { AdminDashboardPath }

EmptyStorage == [isAdmin |-> NoValue, adminEmail |-> NoValue]

AuthInit ==
    /\ user = NoValue
    /\ isAdmin = FALSE
    /\ authLoading = TRUE
    /\ authPc = "getSession"
    /\ authEvents = <<>>
    /\ fetching = {}
    /\ adminCall = FALSE
    /\ localStorage = EmptyStorage
    /\ session = NoValue
    /\ path = HomePath
    /\ adminLoggedIn = FALSE
    /\ reloaded = FALSE

\* localStorage.getItem('isAdmin') === 'true'
storedIsAdmin == localStorage.isAdmin = Some("true")

\* init: getSession has returned; the state is set, the profile is fetched,
\* and the callback is subscribed
getSessionReturns(initialEvent) ==
    /\ authPc = "getSession"
    /\ authPc' = "ready"
    /\ user' = session
    /\ isAdmin' = storedIsAdmin
    /\ IF session # NoValue
       THEN fetching' = fetching \cup session /\ UNCHANGED authLoading
       ELSE authLoading' = FALSE /\ UNCHANGED fetching
    /\ authEvents' = IF initialEvent THEN <<session>> ELSE <<>>
    /\ UNCHANGED <<profile, adminCall, localStorage, session, path, adminLoggedIn, reloaded>>
    /\ UNCHANGED offAuth

\* init: getSession has thrown
getSessionThrows ==
    /\ authPc = "getSession"
    /\ authPc' = "failed"
    /\ user' = NoValue
    /\ profile' = NoValue
    /\ isAdmin' = FALSE
    /\ authLoading' = FALSE
    /\ UNCHANGED <<authEvents, fetching, adminCall, localStorage, session, path,
                   adminLoggedIn, reloaded>>
    /\ UNCHANGED offAuth

\* The callback given to onAuthStateChange is called
authStateChange ==
    /\ authEvents # <<>>
    /\ authEvents' = Tail(authEvents)
    /\ LET newUser == Head(authEvents)
       IN  /\ user' = newUser
           /\ IF newUser # NoValue
              THEN /\ fetching' = fetching \cup newUser
                   /\ UNCHANGED <<profile, isAdmin, authLoading>>
              ELSE /\ profile' = NoValue
                   /\ isAdmin' = FALSE
                   /\ authLoading' = FALSE
                   /\ UNCHANGED fetching
    /\ UNCHANGED <<authPc, adminCall, localStorage, session, path, adminLoggedIn, reloaded>>
    /\ UNCHANGED offAuth

\* fetchProfile: the row of users has arrived, or an error
fetchProfileReturns(userId, ok) ==
    /\ userId \in fetching
    /\ fetching' = fetching \ {userId}
    /\ profile' = IF ok THEN Some([user_id |-> userId]) ELSE profile
    /\ authLoading' = FALSE
    /\ UNCHANGED <<user, isAdmin, authPc, authEvents, adminCall, localStorage, session,
                   path, adminLoggedIn, reloaded>>
    /\ UNCHANGED offAuth

\* What App renders at a path: a page, a redirection or the spinner
Page(p) == [kind |-> "page", at |-> p]
Navigate(to) == [kind |-> "navigate", to |-> to]
Spinner == [kind |-> "spinner"]

AdminRoute(p) ==
    IF authLoading THEN Spinner
    ELSE IF ~isAdmin \/ user = NoValue THEN Navigate(AdminLoginPath)
    ELSE Page(p)

RouteElement(p) ==
    IF authLoading THEN Spinner
    ELSE CASE p = HomePath -> Page(p)
           [] p = AdminLoginPath ->
                  IF isAdmin THEN Navigate(AdminDashboardPath) ELSE Page(p)
           [] p \in AdminPaths -> AdminRoute(p)
           [] OTHER -> Navigate(HomePath)

\* signIn, from the login page (rendered when neither a user nor an admin
\* is signed in): the session is kept and the callback is notified
signIn(userId) ==
    /\ ~authLoading
    /\ authPc = "ready"
    /\ user = NoValue /\ ~isAdmin
    /\ Len(authEvents) < MaxAuthEvents
    /\ session' = Some(userId)
    /\ authEvents' = Append(authEvents, Some(userId))
    /\ UNCHANGED <<user, profile, isAdmin, authLoading, authPc, fetching, adminCall,
                   localStorage, path, adminLoggedIn, reloaded>>
    /\ UNCHANGED offAuth

\* signInAsAdmin up to its await, from the page of /admin-login
signInAsAdmin ==
    /\ ~authLoading
    /\ ~adminCall
    /\ RouteElement(path) = Page(AdminLoginPath)
    /\ authLoading' = TRUE
    /\ adminCall' = TRUE
    /\ UNCHANGED <<user, profile, isAdmin, authPc, authEvents, fetching, localStorage,
                   session, path, adminLoggedIn, reloaded>>
    /\ UNCHANGED offAuth

\* admin_login has answered: a row, or an error or no row
adminLoginAnswers(ok) ==
    /\ adminCall
    /\ adminCall' = FALSE
    /\ authLoading' = FALSE
    /\ IF ok
       THEN /\ localStorage' = [isAdmin |-> Some("true"), adminEmail |-> Some(AdminUser.email)]
            /\ user' = Some(AdminUser.id)
            /\ profile' = NoValue
            /\ isAdmin' = TRUE
            /\ adminLoggedIn' = TRUE
       ELSE /\ localStorage' = EmptyStorage
            /\ adminLoggedIn' = FALSE
            /\ UNCHANGED <<user, profile, isAdmin>>
    /\ reloaded' = FALSE
    /\ UNCHANGED <<authPc, authEvents, fetching, session, path>>
    /\ UNCHANGED offAuth

\* signOut
signOut(notified) ==
    /\ ~authLoading
    /\ user # NoValue \/ isAdmin
    /\ session # NoValue => notified
    /\ notified => authPc = "ready" /\ Len(authEvents) < MaxAuthEvents
    /\ localStorage' = EmptyStorage
    /\ isAdmin' = FALSE
    /\ user' = NoValue
    /\ profile' = NoValue
    /\ session' = NoValue
    /\ authEvents' = IF notified THEN Append(authEvents, NoValue) ELSE authEvents
    /\ adminLoggedIn' = FALSE
    /\ reloaded' = FALSE
    /\ UNCHANGED <<authLoading, authPc, fetching, adminCall, path>>
    /\ UNCHANGED offAuth

\* A link of the application is followed
goTo(p) ==
    /\ ~authLoading
    /\ path' = p
    /\ UNCHANGED <<user, profile, isAdmin, authLoading, authPc, authEvents, fetching,
                   adminCall, localStorage, session, adminLoggedIn, reloaded>>
    /\ UNCHANGED offAuth

\* <Navigate to=... replace />
redirect ==
    /\ RouteElement(path).kind = "navigate"
    /\ path' = RouteElement(path).to
    /\ UNCHANGED <<user, profile, isAdmin, authLoading, authPc, authEvents, fetching,
                   adminCall, localStorage, session, adminLoggedIn, reloaded>>
    /\ UNCHANGED offAuth

\* The page is reloaded: AuthProvider is constructed anew and init runs;
\* localStorage, the session and the location stay
reload ==
    /\ user' = NoValue
    /\ profile' = NoValue
    /\ isAdmin' = FALSE
    /\ authLoading' = TRUE
    /\ authPc' = "getSession"
    /\ authEvents' = <<>>
    /\ fetching' = {}
    /\ adminCall' = FALSE
    /\ reloaded' = adminLoggedIn
    /\ UNCHANGED <<localStorage, session, path, adminLoggedIn>>
    /\ UNCHANGED offAuth

AuthNext ==
    \/ \E initialEvent \in BOOLEAN : getSessionReturns(initialEvent)
    \/ getSessionThrows
    \/ authStateChange
    \/ \E userId \in UserIds, ok \in BOOLEAN : fetchProfileReturns(userId, ok)
    \/ \E userId \in UserIds : signIn(userId)
    \/ signInAsAdmin
    \/ \E ok \in BOOLEAN : adminLoginAnswers(ok)
    \/ \E notified \in BOOLEAN : signOut(notified)
    \/ \E p \in Paths : goTo(p)
    \/ redirect
    \/ reload

----------------------------------------------------------------------------
\* The pickup requests: the tables of the migration, sendPickupRequest of
\* NearbyScrapPage.tsx and PickupRequestsPage (unnamed/part_007), as used
\* by one seller who owns the listings and by the recyclers. Each await of
\* a handler is one step: the statement is executed by the database and
\* its result is received.

\* How many pickup requests are sent
MaxRequests == 2

\* How many transactions are recorded before no further completion starts
MaxTransactions == 2

ScrapIds == { "s1" }
RecyclerIds == { "r1", "r2" }
SellerId == "seller1"

\* parseFloat(e.target.value) || 0
FinalPrices == { 0, 50 }

RequestIds == 1..MaxRequests

IdleHandler == [pc |-> "idle"]

\* A step that ends no handler
MarketStep == [kind |-> "step"]

MarketInit ==
    /\ listingStatus = [s \in ScrapIds |-> "available"]
    /\ pickup_requests = {}
    /\ requestsSent = 0
    /\ transactions = <<>>
    /\ requests = {}
    /\ actionLoading = NoValue
    /\ finalPrice = [id \in {} |-> 0]
    /\ handlers = [id \in RequestIds |-> IdleHandler]
    /\ lastMarket = [kind |-> "init"]

\* NearbyScrapPage: fetchNearbyListings shows the available listings of
\* others, and sendPickupRequest is called on one of them: a row with
\* pickup_status 'pending' (the default of the column)
sendPickupRequest(recycler, scrapId) ==
    /\ listingStatus[scrapId] = "available"
    /\ requestsSent < MaxRequests
    /\ requestsSent' = requestsSent + 1
    /\ pickup_requests' = pickup_requests \cup
           { [request_id |-> requestsSent + 1, scrap_id |-> scrapId,
              recycler_id |-> recycler, pickup_status |-> "pending"] }
    /\ lastMarket' = MarketStep
    /\ UNCHANGED <<listingStatus, transactions, requests, actionLoading,
                   finalPrice, handlers>>
    /\ UNCHANGED offMarket

\* fetchPickupRequests, from the effect of the page: the requests on the
\* listings of the seller
fetchPickupRequests ==
    /\ requests' = pickup_requests
    /\ lastMarket' = MarketStep
    /\ UNCHANGED <<listingStatus, pickup_requests, requestsSent, transactions,
                   actionLoading, finalPrice, handlers>>
    /\ UNCHANGED offMarket

\* The final price input of a request
setFinalPrice(requestId, price) ==
    /\ \E r \in requests : r.request_id = requestId /\ r.pickup_status = "accepted"
    /\ finalPrice' = [id \in DOMAIN finalPrice \cup {requestId} |->
                          IF id = requestId THEN price ELSE finalPrice[id]]
    /\ lastMarket' = MarketStep
    /\ UNCHANGED <<listingStatus, pickup_requests, requestsSent, transactions,
                   requests, actionLoading, handlers>>
    /\ UNCHANGED offMarket

\* requests.find(r => r.request_id === requestId)
findRequest(requestId) == { r \in requests : r.request_id = requestId }

\* supabase.from('pickup_requests').update({pickup_status}).eq('request_id', id)
updateRequest(rows, requestId, status) ==
    { IF r.request_id = requestId THEN [r EXCEPT !.pickup_status = status] ELSE r : r \in rows }

\* A button of a request is clicked: the handler runs up to its first await
clickAccept(requestId) ==
    /\ handlers[requestId].pc = "idle"
    /\ \E r \in requests : r.request_id = requestId /\ r.pickup_status = "pending"
    /\ actionLoading # Some(requestId)
    /\ actionLoading' = Some(requestId)
    /\ handlers' = [handlers EXCEPT ![requestId] =
                        [pc |-> "updateRequest", kind |-> "accept",
                         request |-> findRequest(requestId), price |-> 0]]
    /\ lastMarket' = MarketStep
    /\ UNCHANGED <<listingStatus, pickup_requests, requestsSent, transactions,
                   requests, finalPrice>>
    /\ UNCHANGED offMarket

clickReject(requestId) ==
    /\ handlers[requestId].pc = "idle"
    /\ \E r \in requests : r.request_id = requestId /\ r.pickup_status = "pending"
    /\ actionLoading # Some(requestId)
    /\ actionLoading' = Some(requestId)
    /\ handlers' = [handlers EXCEPT ![requestId] =
                        [pc |-> "deleteRequest", kind |-> "reject",
                         request |-> findRequest(requestId), price |-> 0]]
    /\ lastMarket' = MarketStep
    /\ UNCHANGED <<listingStatus, pickup_requests, requestsSent, transactions,
                   requests, finalPrice>>
    /\ UNCHANGED offMarket

\* The Complete button: disabled without a final price above 0; the two
\* guards of handleCompleteTransaction then pass
clickComplete(requestId) ==
    /\ handlers[requestId].pc = "idle"
    /\ Len(transactions) < MaxTransactions
    /\ \E r \in requests : r.request_id = requestId /\ r.pickup_status = "accepted"
    /\ actionLoading # Some(requestId)
    /\ requestId \in DOMAIN finalPrice
    /\ finalPrice[requestId] > 0
    /\ actionLoading' = Some(requestId)
    /\ handlers' = [handlers EXCEPT ![requestId] =
                        [pc |-> "updateRequest", kind |-> "complete",
                         request |-> findRequest(requestId),
                         price |-> finalPrice[requestId]]]
    /\ lastMarket' = MarketStep
    /\ UNCHANGED <<listingStatus, pickup_requests, requestsSent, transactions,
                   requests, finalPrice>>
    /\ UNCHANGED offMarket

\* catch and finally of a handler
handlerFails(requestId, h) ==
    /\ handlers' = [handlers EXCEPT ![requestId] = IdleHandler]
    /\ actionLoading' = NoValue
    /\ lastMarket' = [kind |-> h.kind, finished |-> TRUE, failed |-> TRUE,
                      request_id |-> requestId, request |-> h.request, price |-> h.price]

\* The status of the request after its update, as the handler sets it
statusSetBy(h) == IF h.kind = "accept" THEN "accepted" ELSE "completed"

\* handleAcceptRequest and handleCompleteTransaction: the update of the
\* request has returned
requestUpdateReturns(requestId, ok) ==
    LET h == handlers[requestId]
    IN  /\ h.pc = "updateRequest"
        /\ IF ok
           THEN /\ pickup_requests' = updateRequest(pickup_requests, requestId, statusSetBy(h))
                /\ handlers' = [handlers EXCEPT ![requestId].pc = "updateListing"]
                /\ lastMarket' = MarketStep
                /\ UNCHANGED actionLoading
           ELSE /\ handlerFails(requestId, h)
                /\ UNCHANGED pickup_requests
        /\ UNCHANGED <<listingStatus, requestsSent, transactions, requests, finalPrice>>
        /\ UNCHANGED offMarket

\* The update of the listing has returned; its result is not read
listingUpdateReturns(requestId, ok) ==
    LET h == handlers[requestId]
        scrap == Val(h.request).scrap_id
    IN  /\ h.pc = "updateListing"
        /\ listingStatus' = IF ok THEN [listingStatus EXCEPT ![scrap] = statusSetBy(h)]
                            ELSE listingStatus
        /\ handlers' = [handlers EXCEPT ![requestId].pc =
                            IF h.kind = "accept" THEN "fetch" ELSE "insertTransaction"]
        /\ lastMarket' = MarketStep
        /\ UNCHANGED <<pickup_requests, requestsSent, transactions, requests,
                       actionLoading, finalPrice>>
        /\ UNCHANGED offMarket

\* handleCompleteTransaction: the insert into transactions has returned
transactionInsertReturns(requestId, ok) ==
    LET h == handlers[requestId]
        request == Val(h.request)
    IN  /\ h.pc = "insertTransaction"
        /\ IF ok
           THEN /\ transactions' = Append(transactions,
                       [seller_id |-> SellerId, recycler_id |-> request.recycler_id,
                        scrap_id |-> request.scrap_id, final_price |-> h.price,
                        status |-> "completed"])
                /\ finalPrice' = [id \in DOMAIN finalPrice \ {requestId} |-> finalPrice[id]]
                /\ handlers' = [handlers EXCEPT ![requestId].pc = "fetch"]
                /\ lastMarket' = MarketStep
                /\ UNCHANGED actionLoading
           ELSE /\ handlerFails(requestId, h)
                /\ UNCHANGED <<transactions, finalPrice>>
        /\ UNCHANGED <<listingStatus, pickup_requests, requestsSent, requests>>
        /\ UNCHANGED offMarket

\* handleRejectRequest: the delete has returned
requestDeleteReturns(requestId, ok) ==
    LET h == handlers[requestId]
    IN  /\ h.pc = "deleteRequest"
        /\ IF ok
           THEN /\ pickup_requests' = { r \in pickup_requests : r.request_id # requestId }
                /\ handlers' = [handlers EXCEPT ![requestId].pc = "fetch"]
                /\ lastMarket' = MarketStep
                /\ UNCHANGED actionLoading
           ELSE /\ handlerFails(requestId, h)
                /\ UNCHANGED pickup_requests
        /\ UNCHANGED <<listingStatus, requestsSent, transactions, requests, finalPrice>>
        /\ UNCHANGED offMarket

\* await fetchPickupRequests() at the end of a handler (it catches its own
\* error), then finally
handlerFetchReturns(requestId, ok) ==
    LET h == handlers[requestId]
    IN  /\ h.pc = "fetch"
        /\ requests' = IF ok THEN pickup_requests ELSE requests
        /\ handlers' = [handlers EXCEPT ![requestId] = IdleHandler]
        /\ actionLoading' = NoValue
        /\ lastMarket' = [kind |-> h.kind, finished |-> TRUE, failed |-> FALSE,
                          request_id |-> requestId, request |-> h.request, price |-> h.price]
        /\ UNCHANGED <<listingStatus, pickup_requests, requestsSent, transactions,
                       finalPrice>>
        /\ UNCHANGED offMarket

MarketNext ==
    \/ \E recycler \in RecyclerIds, scrapId \in ScrapIds : sendPickupRequest(recycler, scrapId)
    \/ fetchPickupRequests
    \/ \E requestId \in RequestIds, price \in FinalPrices : setFinalPrice(requestId, price)
    \/ \E requestId \in RequestIds : clickAccept(requestId)
    \/ \E requestId \in RequestIds : clickReject(requestId)
    \/ \E requestId \in RequestIds : clickComplete(requestId)
    \/ \E requestId \in RequestIds, ok \in BOOLEAN : requestUpdateReturns(requestId, ok)
    \/ \E requestId \in RequestIds, ok \in BOOLEAN : listingUpdateReturns(requestId, ok)
    \/ \E requestId \in RequestIds, ok \in BOOLEAN : transactionInsertReturns(requestId, ok)
    \/ \E requestId \in RequestIds, ok \in BOOLEAN : requestDeleteReturns(requestId, ok)
    \/ \E requestId \in RequestIds, ok \in BOOLEAN : handlerFetchReturns(requestId, ok)

----------------------------------------------------------------------------
\* EditListingModal (unnamed/part_002): the form, the prediction and the
\* update of the listing. The description of the form plays no part in
\* what is checked and is left out.

EditTypes == { "Copper", "Iron" }

\* The weight field, valueAsNumber: 0 stands for the empty field (NaN),
\* both falsy and refused by the schema
EditWeights == { 0, 2, 5 }

\* What predictPrice answers with: a predicted price or an error
EditPredictedPrices == { 10, 20 }

ListedRow == [scrap_type |-> "Copper", weight |-> 2, estimated_price |-> 10]

EditInit ==
    /\ isOpen = FALSE
    /\ form = [scrap_type |-> ListedRow.scrap_type, weight |-> ListedRow.weight]
    /\ prediction = NoValue
    /\ predictingPrice = FALSE
    /\ editLoading = FALSE
    /\ predictCall = NoValue
    /\ updateCall = NoValue
    /\ listing = ListedRow
    /\ lastEdit = [kind |-> "init"]

EditStep == [kind |-> "step"]

\* isOpen becomes true: the effect resets the form and the prediction
openModal ==
    /\ ~isOpen
    /\ isOpen' = TRUE
    /\ form' = [scrap_type |-> listing.scrap_type, weight |-> listing.weight]
    /\ prediction' = NoValue
    /\ lastEdit' = EditStep
    /\ UNCHANGED <<predictingPrice, editLoading, predictCall, updateCall, listing>>
    /\ UNCHANGED offEdit

\* onClose, by the two buttons
closeModal ==
    /\ isOpen
    /\ isOpen' = FALSE
    /\ lastEdit' = EditStep
    /\ UNCHANGED <<form, prediction, predictingPrice, editLoading, predictCall,
                   updateCall, listing>>
    /\ UNCHANGED offEdit

\* The select of scrap_type and the input of weight, registered with the form
changeType(type) ==
    /\ isOpen
    /\ form' = [form EXCEPT !.scrap_type = type]
    /\ lastEdit' = EditStep
    /\ UNCHANGED <<isOpen, prediction, predictingPrice, editLoading, predictCall,
                   updateCall, listing>>
    /\ UNCHANGED offEdit

changeWeight(weight) ==
    /\ isOpen
    /\ form' = [form EXCEPT !.weight = weight]
    /\ lastEdit' = EditStep
    /\ UNCHANGED <<isOpen, prediction, predictingPrice, editLoading, predictCall,
                   updateCall, listing>>
    /\ UNCHANGED offEdit

\* handlePredictPrice up to its await, by its button:
\* disabled={predictingPrice || !watchedType || !watchedWeight}
modalPredictPrice ==
    /\ isOpen
    /\ ~predictingPrice
    /\ form.weight # 0
    /\ predictCall = NoValue
    /\ predictingPrice' = TRUE
    /\ predictCall' = Some([type |-> form.scrap_type, weight |-> form.weight])
    /\ lastEdit' = EditStep
    /\ UNCHANGED <<isOpen, form, prediction, editLoading, updateCall, listing>>
    /\ UNCHANGED offEdit

\* predictPrice has returned: the PricePrediction, kept with what it was
\* asked for (forType and forWeight are history fields), or an error
modalPredictionReturns(answer) ==
    /\ predictCall # NoValue
    /\ predictCall' = NoValue
    /\ predictingPrice' = FALSE
    /\ prediction' = IF answer.ok
                     THEN Some([predictedPrice |-> answer.predictedPrice,
                                forType |-> Val(predictCall).type,
                                forWeight |-> Val(predictCall).weight])
                     ELSE prediction
    /\ lastEdit' = EditStep
    /\ UNCHANGED <<isOpen, form, editLoading, updateCall, listing>>
    /\ UNCHANGED offEdit

EditAnswers ==
    { [ok |-> TRUE, predictedPrice |-> p] : p \in EditPredictedPrices } \cup { [ok |-> FALSE] }

\* The schema of the form: handleSubmit calls onSubmit only with valid data
formValid == form.scrap_type # "" /\ form.weight > 0

\* The guard of onSubmit, and of its button (disabled={loading || !prediction})
cannotSave == prediction = NoValue

\* onSubmit up to its await, by the submit button of the form
onSubmit ==
    /\ isOpen
    /\ ~editLoading
    /\ ~cannotSave
    /\ formValid
    /\ updateCall = NoValue
    /\ editLoading' = TRUE
    /\ updateCall' = Some([written |-> [scrap_type |-> form.scrap_type,
                                        weight |-> form.weight,
                                        estimated_price |-> Val(prediction).predictedPrice],
                           prediction |-> Val(prediction)])
    /\ lastEdit' = EditStep
    /\ UNCHANGED <<isOpen, form, prediction, predictingPrice, predictCall, listing>>
    /\ UNCHANGED offEdit

\* The update of scrap_listings has returned: onUpdate and onClose, or the alert
updateReturns(ok) ==
    /\ updateCall # NoValue
    /\ updateCall' = NoValue
    /\ editLoading' = FALSE
    /\ IF ok
       THEN /\ listing' = Val(updateCall).written
            /\ isOpen' = FALSE
            /\ lastEdit' = [kind |-> "updated", written |-> Val(updateCall).written,
                            prediction |-> Val(updateCall).prediction]
       ELSE /\ lastEdit' = EditStep
            /\ UNCHANGED <<listing, isOpen>>
    /\ UNCHANGED <<form, prediction, predictingPrice, predictCall>>
    /\ UNCHANGED offEdit

EditNext ==
    \/ openModal
    \/ closeModal
    \/ \E type \in EditTypes : changeType(type)
    \/ \E weight \in EditWeights : changeWeight(weight)
    \/ modalPredictPrice
    \/ \E answer \in EditAnswers : modalPredictionReturns(answer)
    \/ onSubmit
    \/ \E ok \in BOOLEAN : updateReturns(ok)

----------------------------------------------------------------------------
\* The specifications

Init == EstInit /\ PageInit /\ SubmitInit /\ AdminInit /\ CacheInit /\ AuthInit
        /\ MarketInit /\ EditInit

\* The page
Spec == Init /\ [][Next]_vars

\* The estimator entry points, called on their own
SpecEst == Init /\ [][EstNext]_vars

\* The ingestion of datasets
SpecIngest == Init /\ [][IngestNext]_vars

\* The market data cache
SpecCache == Init /\ [][CacheNext]_vars

\* The page with its profile, its location and its submission
SpecSubmit == Init /\ [][SubmitNext]_vars

\* AuthProvider and the routes
SpecAuth == Init /\ [][AuthNext]_vars

\* The pickup requests
SpecMarket == Init /\ [][MarketNext]_vars

\* EditListingModal
SpecEdit == Init /\ [][EditNext]_vars

\* The page, with every request of predictPrice answered in the end: fetch
\* resolves or rejects, it does not stay pending for ever
SpecPredict == Init /\ [][PredictNext]_vars /\ WF_vars(ServiceAnswers)

----------------------------------------------------------------------------
\* Properties of the estimator entry points (checked under SpecEst)

EstCalled == estCall # NoCall
EstRemoteEntry == EstCalled /\ estCall.entry \in {"predictPrice3", "predictPrice"}
EstLocalEntry == EstCalled /\ estCall.entry = "predictPriceLocal"

\* The weight of the call is missing, zero or negative
EstWeightInvalid == estCall.weight = NoValue \/ Val(estCall.weight) <= 0

\* The material type or a category of the call is empty
EstNameEmpty ==
    CASE estCall.entry = "predictPrice3" ->
             estCall.scrapCategory = <<>> \/ estCall.subCategory = <<>>
                 \/ estCall.subSubCategory = <<>>
      [] estCall.entry = "predictPrice" ->
             estCall.scrapCategory = <<>> \/ estCall.subCategoryOrLeaf = <<>>
      [] estCall.entry = "predictPriceLocal" -> estCall.type = <<>>

EstRejectedAsInvalid ==
    /\ estResult.kind = "error"
    /\ estResult.message \in {InvalidInputs3Message, InvalidInputsMessage}
    /\ estRequests = <<>>
    /\ ~estPending

\* C1: every call of an estimator entry point (predictPrice3, the remote
\* predictPrice, the local predictPrice) whose weight is missing, zero or
\* negative, or whose type or category is empty, fails with the
\* invalid-input error, having sent no request and resolved no base price.
C1_InvalidInputRejected ==
    (EstCalled /\ (EstWeightInvalid \/ EstNameEmpty)) => EstRejectedAsInvalid

\* The part of C1 that the remote entry points satisfy
RemoteInvalidInputRejected ==
    (EstRemoteEntry /\ (EstWeightInvalid \/ EstNameEmpty)) => EstRejectedAsInvalid

\* C5: when the service answers with a non-success status, the call fails
\* with the body's error string as its message, or with "Prediction failed"
\* when the body has no readable error string; no estimate is returned.
C5_FailureMessage ==
    \A resp \in estResponse :
        resp.status = "fail" =>
            /\ estResult.kind = "error"
            /\ IF resp.json /\ resp.error # NoValue /\ resp.error # Some("")
               THEN Some(estResult.message) = resp.error
               ELSE estResult.message = "Prediction failed"

C5_Witness ==
    /\ EstRemoteEntry
    /\ \E resp \in estResponse :
           /\ resp.status = "fail" /\ resp.json /\ resp.error = Some("unknown label")
    /\ estResult.kind = "error"
    /\ estResult.message = "unknown label"

\* C6: on a success response the result's base price and predicted price
\* are the response's, and the weight multiplier is the quotient
\* predicted/(base*weight) where that quotient is at least 1e-6 and 1e-6
\* where it is smaller; it is strictly positive for every response.
C6_VerbatimAndPositive ==
    \A resp \in estResponse :
        resp.status = "ok" =>
            /\ estResult.kind = "ok"
            /\ estResult.prediction.factors.basePrice = resp.base_price
            /\ \A p \in resp.predicted_price : estResult.prediction.predictedPrice = p
            /\ LET wm == estResult.prediction.factors.weightMultiplier
                   bw == resp.base_price * Val(estCall.weight)
                   p  == estResult.prediction.predictedPrice
               IN  /\ wm[1] > 0 /\ wm[2] > 0
                   /\ bw > 0 =>
                        IF p * 1000000 >= bw
                        THEN wm[1] * bw = p * wm[2]
                        ELSE wm = <<1, 1000000>>

C6_Witness ==
    /\ EstRemoteEntry
    /\ \E resp \in estResponse :
           /\ resp.status = "ok"
           /\ resp.base_price > 0
           /\ resp.predicted_price = Some(0)
    /\ estResult.kind = "ok"
    /\ estResult.prediction.factors.weightMultiplier = <<1, 1000000>>

\* The price the table gives a key
TablePrice(k) == CHOOSE p \in { e[2] : e \in { x \in basePrices : x[1] = k } } : TRUE

\* C7: for a material type that is a key of the base-price table, in any
\* letter case, padded with white space, in the singular or the plural, the
\* local estimator resolves the base price to that key's own price.
C7_KeyVariantsResolveExactly ==
    EstLocalEntry =>
        \A k \in TableKeys :
            estCall.type \in VariantsOf(k) =>
                /\ estResult.kind = "ok"
                /\ estResult.prediction.factors.basePrice = TablePrice(k)

\* The part of C7 that holds: a key with no "s" before a word boundary
\* resolves to its own price as it is written in the table
SFreeKeysResolveExactly ==
    EstLocalEntry =>
        \A k \in TableKeys :
            (estCall.type = k /\ replaceFirstSBoundary(k) = k) =>
                /\ estResult.kind = "ok"
                /\ estResult.prediction.factors.basePrice = TablePrice(k)

AllKeywords == metalKeywords \cup ewasteKeywords \cup paperKeywords \cup glassKeywords

\* C8: when the normalized type is no key of the table and contains no
\* keyword of any family, the local estimator fails with the
\* price-unavailable error and returns no price.
C8_UnknownTypeFails ==
    EstLocalEntry =>
        LET normalized == normalize(estCall.type)
        IN  (/\ normalized \notin TableKeys
             /\ \A kw \in AllKeywords : ~includes(normalized, kw))
            => estResult.kind = "error"

----------------------------------------------------------------------------
\* Properties of the aggregator (checked under Spec)

RunningCalls == { id \in DOMAIN calls : calls[id].pc # "idle" }
RequestsOf(id) == { r \in net : r.call = id }

\* The indices of the leaves of a list that the aggregator estimates
PositiveIndices(items) == { i \in DOMAIN items : items[i].weight > 0 }

\* The increasing sequence of the elements of a set of indices
RECURSIVE Ascending(_)
Ascending(S) ==
    IF S = {} THEN <<>>
    ELSE LET m == CHOOSE x \in S : \A y \in S : x <= y
         IN  <<m>> \o Ascending(S \ {m})

RECURSIVE SumWeights(_, _)
SumWeights(leaves, S) ==
    IF S = {} THEN 0
    ELSE LET i == CHOOSE x \in S : TRUE
         IN  leaves[i].weight + SumWeights(leaves, S \ {i})

RECURSIVE SumPrices(_, _)
SumPrices(leaves, S) ==
    IF S = {} THEN 0
    ELSE LET i == CHOOSE x \in S : TRUE
         IN  Val(leaves[i].predictedPrice) + SumPrices(leaves, S \ {i})

RECURSIVE SumCategoryPrices(_, _)
SumCategoryPrices(breakdown, S) ==
    IF S = {} THEN 0
    ELSE LET c == CHOOSE x \in S : TRUE
         IN  breakdown[c].price + SumCategoryPrices(breakdown, S \ {c})

\* Steps of handlePredictPrice, told by the history variable
StepFailed == lastStep.kind = "failed"
StepCommitted == lastStep.kind = "committed"

\* C2: when the estimation of a leaf fails, no later leaf is estimated and
\* nothing of the batch is committed: the step that handles the failure (and
\* every step of the batch before it) leaves selectedLeaves, predictedTotal,
\* priceBreakdown and needsRecalc as they are, the invocation ends with no
\* request left, and the failure is alerted.
C2_FailureCommitsNothing ==
    [][ /\ lastStep'.kind \in {"requested", "failed"}
           => UNCHANGED <<selectedLeaves, predictedTotal, priceBreakdown, needsRecalc>>
        /\ lastStep'.kind = "failed"
           => /\ calls'[lastStep'.call] = IdleCall
              /\ \A r \in net' : r.call # lastStep'.call
              /\ predicting' = FALSE
              /\ lastStep'.alert = PredictionFailedAlert
      ]_vars

\* A batch failed at a leaf after an earlier leaf had been estimated and
\* before a later leaf with a positive weight was asked for
C2_Witness ==
    /\ StepFailed
    /\ \E i \in DOMAIN lastStep.updated : lastStep.updated[i].predictedPrice # NoValue
    /\ \E i \in PositiveIndices(lastStep.items) : \A k \in DOMAIN lastStep.sent : lastStep.sent[k] < i
    /\ predictedTotal = NoValue

\* C3: the aggregator asks the estimator once for each leaf whose weight is
\* greater than 0, in order, and never for a leaf whose weight is zero; such
\* a leaf raises no error (a batch fails only on the service's answer), is
\* written back as it was and has no part in a category total or in the
\* grand total.
C3_ZeroWeightSkipped ==
    /\ \A id \in RunningCalls :
           /\ \A k \in DOMAIN calls[id].sent : calls[id].items[calls[id].sent[k]].weight > 0
           /\ calls[id].sent =
                  Ascending({ i \in PositiveIndices(calls[id].items) : i <= calls[id].i })
    /\ StepFailed => lastStep.message \notin {InvalidInputsMessage, InvalidInputs3Message}
    /\ StepCommitted =>
           /\ lastStep.sent = Ascending(PositiveIndices(lastStep.items))
           /\ Len(selectedLeaves) = Len(lastStep.items)
           /\ \A i \in DOMAIN lastStep.items :
                  lastStep.items[i].weight <= 0 => selectedLeaves[i] = lastStep.items[i]
           /\ \A c \in DOMAIN priceBreakdown :
                  \E i \in PositiveIndices(lastStep.items) : lastStep.items[i].category = c
           /\ predictedTotal =
                  Some(SumPrices(selectedLeaves, PositiveIndices(selectedLeaves)))

\* A batch over a leaf without weight and a leaf with a weight has committed
C3_Witness ==
    /\ StepCommitted
    /\ \E i \in DOMAIN lastStep.items : lastStep.items[i].weight = 0
    /\ Len(lastStep.sent) >= 1
    /\ \E i, j \in DOMAIN lastStep.items :
           /\ lastStep.items[i].category = lastStep.items[j].category
           /\ lastStep.items[i].weight = 0
           /\ lastStep.items[j].weight > 0

PositiveIn(cat) ==
    { i \in PositiveIndices(selectedLeaves) : selectedLeaves[i].category = cat }

\* C4: after a successful batch (until the next edit, that is while
\* needsRecalc is false) the breakdown of every category holds the sums of
\* the weights and of the predicted prices of the category's leaves with a
\* positive weight, a category without such a leaf has no entry, and the
\* grand total is the sum of the categories' total prices.
C4_BreakdownSums ==
    needsRecalc = FALSE =>
        /\ DOMAIN priceBreakdown = { cat \in Categories : PositiveIn(cat) # {} }
        /\ \A cat \in DOMAIN priceBreakdown :
               /\ priceBreakdown[cat].weight = SumWeights(selectedLeaves, PositiveIn(cat))
               /\ priceBreakdown[cat].price = SumPrices(selectedLeaves, PositiveIn(cat))
        /\ predictedTotal = Some(SumCategoryPrices(priceBreakdown, DOMAIN priceBreakdown))

\* A batch over two leaves of one category and a leaf of another, all with
\* a weight, has committed
C4_Witness ==
    /\ needsRecalc = FALSE
    /\ StepCommitted
    /\ \E cat \in DOMAIN priceBreakdown : Cardinality(PositiveIn(cat)) = 2
    /\ Cardinality(DOMAIN priceBreakdown) = 2

\* C9: at most one estimation request is in flight: at most one invocation
\* of handlePredictPrice runs, it awaits exactly one request, the one for the
\* last leaf it asked for, every leaf it asked for before has been
\* answered, and the Predict button is disabled while it runs.
C9_OneRequestInFlight ==
    /\ Cardinality(net) <= 1
    /\ Cardinality(RunningCalls) <= 1
    /\ \A id \in RunningCalls :
           /\ calls[id].pc = "await"
           /\ RequestsOf(id) = { requestOf(id, calls[id]) }
           /\ calls[id].sent # <<>>
           /\ calls[id].sent[Len(calls[id].sent)] = calls[id].i
           /\ Len(calls[id].updated) = calls[id].i - 1
           /\ PredictDisabled
    /\ \A r \in net : r.call \in RunningCalls

\* The request for a second leaf is in flight
C9_Witness ==
    \E id \in RunningCalls :
        /\ Len(calls[id].sent) = 2
        /\ Cardinality(net) = 1

\* C10: a failed prediction is not retried: an invocation asks for each
\* leaf at most once, and when it has failed nothing of it is in flight and
\* no invocation runs, so that only a new click can send a request.
C10_NoAutomaticRetry ==
    /\ \A id \in DOMAIN calls :
           calls[id].pc # "idle" =>
               \A j, k \in DOMAIN calls[id].sent :
                   j < k => calls[id].sent[j] < calls[id].sent[k]
    /\ StepFailed =>
           /\ net = {}
           /\ RunningCalls = {}
           /\ predicting = FALSE
           /\ \A j, k \in DOMAIN lastStep.sent : j < k => lastStep.sent[j] < lastStep.sent[k]
    /\ RunningCalls = {} => net = {}

\* A batch has failed on the service's error after its request was sent
C10_Witness ==
    /\ StepFailed
    /\ lastStep.message = "unknown label"
    /\ Len(lastStep.sent) >= 1
    /\ net = {}

----------------------------------------------------------------------------
\* Properties of the ingestion (checked under SpecIngest)

samePair(r, s) ==
    r.metal_type = s.metal_type /\ r.market_location = s.market_location

\* C11: the table of reference prices never holds two rows for one pair of
\* material type and market location, whatever datasets were ingested.
C11_OnePricePerPair ==
    \A r \in metal_prices, s \in metal_prices : samePair(r, s) => r.price_id = s.price_id

\* A dataset has repeated a pair it had added itself: the second record was
\* refused by the table
C11_Witness ==
    /\ lastIngest.kind = "record"
    /\ lastIngest.accepted
    /\ lastIngest.upsert = "unique_violation"
    /\ \E r \in metal_prices : /\ r.data_source = FileName
                               /\ samePair(r, priceRowOf(lastIngest.record))

\* A record the claim calls valid: it names a material type and its price
\* is a number
ValidRecord(record) ==
    /\ \E t \in {record.metal_type, record.metal} : t # NoValue /\ Val(t) # ""
    /\ \E p \in {record.price, record.rate} : p # NoValue

RecordType(record) ==
    Val(CHOOSE t \in {record.metal_type, record.metal} : t # NoValue /\ Val(t) # "")
RecordPrice(record) == Val(CHOOSE p \in {record.price, record.rate} : p # NoValue)

RecordProcessed == lastIngest'.kind = "record" /\ upload' # upload

\* price_history only grows at its end
HistoryAppendOnly ==
    [][ /\ Len(price_history') >= Len(price_history)
        /\ SubSeq(price_history', 1, Len(price_history)) = price_history ]_vars

\* C12: the step that processes a valid record leaves the reference price
\* of the record's pair at the record's price and price_history longer by
\* exactly one point, the record's; no step changes or removes a point.
C12_RecordSetsPriceAndAppends ==
    [][ /\ Len(price_history') >= Len(price_history)
        /\ SubSeq(price_history', 1, Len(price_history)) = price_history
        /\ (RecordProcessed /\ ValidRecord(lastIngest'.record)) =>
              LET record == lastIngest'.record
              IN  /\ \E r \in metal_prices' :
                         /\ r.metal_type = RecordType(record)
                         /\ r.market_location = marketLocationOf(record)
                         /\ r.current_price = RecordPrice(record)
                  /\ Len(price_history') = Len(price_history) + 1
                  /\ price_history'[Len(price_history')].price = RecordPrice(record)
      ]_vars

\* What does hold of a record the loop accepts and whose pair is new: the
\* price is set; and of an accepted record with a non-negative price and a
\* date that parses: one point is appended.
AcceptedRecordOfNewPair ==
    [][ (RecordProcessed /\ lastIngest'.accepted) =>
          LET record == lastIngest'.record
          IN  /\ lastIngest'.upsert = "inserted" =>
                     \E r \in metal_prices' : /\ samePair(r, priceRowOf(record))
                                              /\ r.current_price = Val(priceOf(record))
              /\ lastIngest'.history = "inserted" =>
                     price_history' = Append(price_history, historyPointOf(record))
      ]_vars

----------------------------------------------------------------------------
\* Properties of the estimates (checked under SpecEst)

\* An entry point has returned an estimate for a positive weight
EstSucceeded ==
    /\ EstCalled
    /\ ~EstNameEmpty
    /\ estResult.kind = "ok"
    /\ estCall.weight # NoValue
    /\ Val(estCall.weight) > 0

\* The predicted price of the result, as a rational
EstPrice ==
    IF EstLocalEntry
    THEN Val(estResult.prediction.predictedPrice)
    ELSE RatOfInt(estResult.prediction.predictedPrice)

\* base price x weight x market trend x weight multiplier x quality, from
\* the factors of the result
ProductOfFactors ==
    LET f == estResult.prediction.factors
    IN  Rat(f.basePrice * Val(estCall.weight) * f.weightMultiplier[1] * f.marketTrend[1]
              * f.qualityAdjustment[1],
            f.weightMultiplier[2] * f.marketTrend[2] * f.qualityAdjustment[2])

\* A rational r >= 0 rounded to hundredths (half up), as a number of
\* hundredths. The division by 100 is taken out of the denominator where
\* it can be, to stay inside the integer range.
RoundHundredths(r) ==
    IF r[2] % 100 = 0
    THEN LET u == r[2] \div 100
         IN  (r[1] \div u) + (IF 2 * (r[1] % u) >= u THEN 1 ELSE 0)
    ELSE LET m == r[1] * 100
         IN  (m \div r[2]) + (IF 2 * (m % r[2]) >= r[2] THEN 1 ELSE 0)

\* The number of hundredths a rational is, if it is a whole number of them
InHundredths(r) ==
    IF r[2] % 100 = 0
    THEN LET u == r[2] \div 100
         IN  IF r[1] % u = 0 THEN Some(r[1] \div u) ELSE NoValue
    ELSE IF (r[1] * 100) % r[2] = 0 THEN Some((r[1] * 100) \div r[2]) ELSE NoValue

\* C13: the predicted price of a successful estimate is the product of the
\* base price, the weight and the three multipliers of the same result,
\* rounded to two decimal places.
C13_PriceIsRoundedProduct ==
    EstSucceeded => InHundredths(EstPrice) = Some(RoundHundredths(ProductOfFactors))

\* What does hold of the local estimator: the price is the product, not
\* rounded
LocalPriceIsProduct ==
    (EstSucceeded /\ EstLocalEntry) => EstPrice = ProductOfFactors

\* A rational as a number of hundredths, where it is one
Hundredths(n) == Some(n)

\* The bonus conditions of the confidence score. The estimators of
\* pricePredictor.ts read neither a price history nor a source label, so
\* these two may or may not be satisfied; the third is decided by the
\* description of the call (the remote entry points take none).
ConfidenceBonuses == { "history", "source", "description" }
DescriptionIsLong ==
    /\ EstLocalEntry
    /\ estCall.description # NoValue
    /\ Len(Val(estCall.description)) > 20

\* C14: the confidence of a successful estimate is 0.7 plus 0.1 for each
\* bonus condition that is satisfied, so it is one of 0.7, 0.8, 0.9 and
\* 1.0, and at least 0.8 when the description is longer than 20 characters.
C14_ConfidenceFromBonuses ==
    EstSucceeded =>
        \E B \in SUBSET ConfidenceBonuses :
            /\ ("description" \in B) <=> DescriptionIsLong
            /\ InHundredths(estResult.prediction.confidence)
                   = Hundredths(70 + 10 * Cardinality(B))

\* What does hold: the confidence lies between 0.7 and 1.0
ConfidenceInRange ==
    EstSucceeded =>
        /\ RatGE(estResult.prediction.confidence, Rat(7, 10))
        /\ RatGE(Rat(1, 1), estResult.prediction.confidence)

\* The results the code can return for the call that was made: one for
\* each value Math.random() may draw (local), the one built from the
\* response (remote)
EstOutcomes ==
    IF EstLocalEntry
    THEN { priceFromBase(resolveBasePrice(estCall.type), estCall.weight, r1, r2, r3, r4) :
               r1 \in RandomDraws, r2 \in RandomDraws, r3 \in RandomDraws, r4 \in RandomDraws }
    ELSE { settle(resp, Val(estCall.weight)) : resp \in estResponse }

\* C15: a call with the same arguments against the same data (or the same
\* response) returns the same price, confidence and factors: the result
\* that was returned is the only one the call can return.
C15_Deterministic ==
    EstSucceeded => \A other \in EstOutcomes : other = estResult

\* What does hold: the remote entry points are deterministic in the response
RemoteDeterministic ==
    (EstSucceeded /\ EstRemoteEntry) => EstOutcomes = { estResult }

\* The multiplier of the weight tiers, in hundredths
TierMultiplier(w) == IF w > 100 THEN 95 ELSE IF w < 10 THEN 105 ELSE 100

\* C17: the weight multiplier of an estimate of the local estimator is
\* 0.95 for a weight above 100, 1.05 for a weight below 10 and 1.0
\* otherwise.
C17_WeightTiers ==
    (EstSucceeded /\ EstLocalEntry) =>
        InHundredths(estResult.prediction.factors.weightMultiplier)
            = Hundredths(TierMultiplier(Val(estCall.weight)))

\* The quality terms, and the multiplier a description earns, in hundredths
Str_high_quality == <<"h","i","g","h"," ","q","u","a","l","i","t","y">>
Str_pure == <<"p","u","r","e">>
Str_clean == <<"c","l","e","a","n">>
Str_mixed == <<"m","i","x","e","d">>
Str_contaminated == <<"c","o","n","t","a","m","i","n","a","t","e","d">>
Str_rusty == <<"r","u","s","t","y">>
PositiveTerms == { Str_high_quality, Str_pure, Str_clean }
NegativeTerms == { Str_mixed, Str_contaminated, Str_rusty }
HasTerm(text, terms) ==
    /\ text # NoValue
    /\ \E t \in terms : includes(toLowerCase(Val(text)), t)
QualityMultiplier(text) ==
    IF HasTerm(text, PositiveTerms) THEN 110
    ELSE IF HasTerm(text, NegativeTerms) THEN 85
    ELSE 100

\* C18: the quality multiplier is 1.10 when the description has a positive
\* term (also beside a negative one), 0.85 when it has a negative term and
\* no positive one, and 1.0 otherwise or without a description.
C18_QualityFromDescription ==
    (EstSucceeded /\ EstLocalEntry) =>
        InHundredths(estResult.prediction.factors.qualityAdjustment)
            = Hundredths(QualityMultiplier(estCall.description))

\* C19: the step in which the local estimator returns an estimate appends
\* exactly one record to price_predictions.
C19_EstimateIsLogged ==
    [][ (EstSucceeded' /\ EstLocalEntry' /\ ~EstSucceeded) =>
            /\ Len(price_predictions') = Len(price_predictions) + 1
            /\ SubSeq(price_predictions', 1, Len(price_predictions)) = price_predictions
      ]_vars

\* What does hold: no entry point of pricePredictor.ts writes the table
NothingIsLogged == price_predictions = <<>>

----------------------------------------------------------------------------
\* Properties of the market data cache (checked under SpecCache)

\* A step of getCurrentPrices: the only steps that leave the clock alone
GetReturned == lastGet'.kind = "get" /\ now' = now

\* The call is made less than TTL after the last refresh
WithinTTL == lastCacheUpdate # 0 /\ now - lastCacheUpdate < TTL

----------------------------------------------------------------------------
\* Properties of handleSubmit (checked under SpecSubmit)

\* What handleSubmit asks for before it inserts
SubmitConditions ==
    /\ Len(selectedCategories) >= 1
    /\ Len(selectedLeaves) >= 1
    /\ profile # NoValue
    /\ predictedTotal # NoValue
    /\ Val(predictedTotal) # 0
    /\ location # NoValue

\* C20: handleSubmit sends its insert only when a category and a leaf are
\* selected, the profile is loaded, the predicted total is not zero and a
\* location is chosen, and the row is made of these; in every other case it
\* sends nothing and changes nothing of the page; a listing is created only
\* by an insert that handleSubmit has sent.
C20_SubmitOnlyWhenComplete ==
    [][ /\ lastStep'.kind = "submit sent" =>
               /\ SubmitConditions
               /\ submitting' = Some(listingRow)
        /\ lastStep'.kind = "submit refused" =>
               /\ ~SubmitConditions
               /\ UNCHANGED <<selectedCategories, selectedLeaves, predicting, predictedTotal,
                              priceBreakdown, needsRecalc, profile, location, description,
                              loading, submitting, scrap_listings>>
        /\ submitting' # submitting => lastStep'.kind \in {"submit sent", "listing created",
                                                           "listing failed"}
        /\ scrap_listings' # scrap_listings =>
               /\ submitting # NoValue
               /\ scrap_listings' = Append(scrap_listings, Val(submitting))
      ]_vars

\* A listing has been created
C20_Witness ==
    /\ lastStep.kind = "listing created"
    /\ Len(scrap_listings) = 1
    /\ scrap_listings[1].place # NoValue
    /\ scrap_listings[1].estimated_price # NoValue

\* handleSubmit has refused for the selection and for the location
SubmitRefusedForSelection ==
    lastStep.kind = "submit refused" /\ lastStep.alert = CompleteSelectionAlert
SubmitRefusedForLocation ==
    lastStep.kind = "submit refused" /\ lastStep.alert = SelectLocationAlert

----------------------------------------------------------------------------
\* Properties of the page with its submission (checked under SpecSubmit)

\* C21: the batch that succeeds leaves needsRecalc false and the Predict
\* button disabled; while needsRecalc is false the button is disabled, and
\* needsRecalc becomes true again only by a change of an input (or by the
\* page being left); every toggle of a category or a leaf, every change of
\* a weight, of the description or of the location leaves needsRecalc true.
C21_LockedUntilChange ==
    [][ /\ lastStep'.kind = "committed" => ~needsRecalc' /\ PredictDisabled'
        /\ ~needsRecalc => PredictDisabled
        /\ ~needsRecalc /\ needsRecalc' => lastStep'.kind \in {"edit", "listing created"}
        /\ lastStep'.kind = "edit" => needsRecalc'
      ]_vars

\* A batch has succeeded, the prediction is locked, and a location is chosen
C21_Witness ==
    /\ lastStep.kind = "committed"
    /\ ~needsRecalc
    /\ PredictDisabled
    /\ location # NoValue

\* The lock has been lifted by an edit after a batch succeeded
UnlockedAfterCommit ==
    /\ lastStep.kind = "edit"
    /\ needsRecalc
    /\ \E i \in 1..Len(selectedLeaves) : selectedLeaves[i].predictedPrice # NoValue

----------------------------------------------------------------------------
\* Properties of AuthProvider and the routes (checked under SpecAuth)

\* An admin signed in, the page was reloaded, and init has run to its end
\* with nothing left to be delivered
ReloadedAsAdmin ==
    /\ adminLoggedIn
    /\ reloaded
    /\ authPc = "ready"
    /\ authEvents = <<>>
    /\ fetching = {}
    /\ ~authLoading

\* C22: after signInAsAdmin has succeeded and the page was reloaded, the
\* auth state identifies an admin (isAdmin with a user), and an admin route
\* renders its page.
C22_AdminPersistsAcrossReload ==
    ReloadedAsAdmin =>
        /\ isAdmin
        /\ user # NoValue
        /\ path \in AdminPaths => RouteElement(path) = Page(path)

\* After such a reload the user is the one of the Supabase session, never
\* the admin: without a session there is no user
ReloadedUserIsSessionUser == ReloadedAsAdmin => user = session

----------------------------------------------------------------------------
\* Properties of the pickup requests (checked under SpecMarket)

StatusRank(status) ==
    CASE status = "available" -> 0
      [] status = "accepted"  -> 1
      [] status = "completed" -> 2

\* C23: the status of a listing only moves forward, from available to
\* accepted to completed: no step moves it back.
C23_ListingStatusOnlyForward ==
    [][ \A s \in ScrapIds : StatusRank(listingStatus'[s]) >= StatusRank(listingStatus[s]) ]_vars

\* The steps of accept and complete set the listing to the status of the
\* handler, whatever it was
ListingSetByHandler ==
    [][ \A s \in ScrapIds : listingStatus'[s] # listingStatus[s] =>
            \E id \in RequestIds : /\ handlers[id].pc = "updateListing"
                                   /\ listingStatus'[s] = statusSetBy(handlers[id]) ]_vars

\* C24: the transactions table never holds two rows with the same scrap_id.
C24_OneTransactionPerListing ==
    \A i, j \in 1..Len(transactions) :
        transactions[i].scrap_id = transactions[j].scrap_id => i = j

\* A transaction of the request the handler ran for is recorded
TransactionRecordedFor(request) ==
    \E i \in 1..Len(transactions) :
        /\ transactions[i].scrap_id = request.scrap_id
        /\ transactions[i].recycler_id = request.recycler_id
        /\ transactions[i].final_price > 0

RequestCompleted(requestId) ==
    \E r \in pickup_requests : r.request_id = requestId /\ r.pickup_status = "completed"

\* C25: when handleCompleteTransaction has finished, the request is
\* completed if and only if a transaction of its listing and recycler with
\* a final price above 0 is recorded.
C25_CompletionAllOrNothing ==
    lastMarket.kind = "complete" =>
        (RequestCompleted(lastMarket.request_id)
            <=> TransactionRecordedFor(Val(lastMarket.request)))

\* Every transaction has a final price above 0 and the listing's seller
TransactionsWellFormed ==
    \A i \in 1..Len(transactions) :
        transactions[i].final_price > 0 /\ transactions[i].seller_id = SellerId

----------------------------------------------------------------------------
\* Properties of the selection of ListScrapPage (checked under Spec)

\* C26: every leaf in selectedLeaves belongs to a category that is in
\* selectedCategories.
C26_LeavesOfSelectedCategories ==
    \A i \in 1..Len(selectedLeaves) :
        selectedLeaves[i].category \in Range(selectedCategories)

\* Only the write-back of handlePredictPrice breaks it: the three handlers
\* of the selection keep it
LeavesLostOnlyByCommit ==
    [][ C26_LeavesOfSelectedCategories /\ ~C26_LeavesOfSelectedCategories'
            => lastStep'.kind = "committed" ]_vars

----------------------------------------------------------------------------
\* Properties of the submitted price (checked under SpecSubmit)

\* The prices the service answers for the leaves of positive weight, summed
RECURSIVE PriceOfSelection(_)
PriceOfSelection(leaves) ==
    IF leaves = <<>> THEN 0
    ELSE (IF Head(leaves).weight > 0
          THEN LabelPrice(Head(leaves).leaf) * Head(leaves).weight ELSE 0)
         + PriceOfSelection(Tail(leaves))

\* C27: the estimated_price of the row handleSubmit inserts is the sum of
\* the prices predicted for the leaves and weights in selectedLeaves when
\* it is submitted, and its weight is their total weight; a toggle of a
\* category or a leaf and a change of a weight clear predictedTotal.
C27_SubmittedPriceIsOfSelection ==
    [][ /\ lastStep'.kind = "submit sent" =>
               /\ Val(submitting').estimated_price = Some(PriceOfSelection(selectedLeaves))
               /\ Val(submitting').weight = totalWeightOf(selectedLeaves)
        /\ lastStep'.kind = "edit" /\ <<selectedCategories, selectedLeaves>>' #
                                         <<selectedCategories, selectedLeaves>>
               => predictedTotal' = NoValue
      ]_vars

\* While a total is shown it is the one of the selection shown
TotalIsOfSelection ==
    predictedTotal # NoValue => Val(predictedTotal) = PriceOfSelection(selectedLeaves)

\* A listing of two leaves has been created with the price of both
C27_Witness ==
    /\ lastStep.kind = "listing created"
    /\ Len(scrap_listings) >= 1
    /\ scrap_listings[1].estimated_price = Some(20)
    /\ scrap_listings[1].weight = 4

----------------------------------------------------------------------------
\* Properties of EditListingModal (checked under SpecEdit)

\* C28: whenever an update of the listing is written, the estimated_price
\* written is the price of a prediction computed for the scrap type and the
\* weight written with it.
C28_PriceOfWrittenTypeAndWeight ==
    lastEdit.kind = "updated" =>
        /\ lastEdit.written.estimated_price = lastEdit.prediction.predictedPrice
        /\ lastEdit.prediction.forType = lastEdit.written.scrap_type
        /\ lastEdit.prediction.forWeight = lastEdit.written.weight

----------------------------------------------------------------------------
\* Progress of handlePredictPrice (checked under SpecPredict)

\* C29: whenever predicting is true it is false again later, after a
\* success and after a failure, every request being answered in the end.
C29_PredictingEnds == predicting ~> ~predicting

\* A batch with a request has failed and predicting is false again
C29_Witness ==
    /\ lastStep.kind = "failed"
    /\ Len(lastStep.sent) >= 1
    /\ ~predicting
    /\ net = {}

\* A batch with a request has succeeded and predicting is false again
PredictingEndedBySuccess ==
    /\ lastStep.kind = "committed"
    /\ Len(lastStep.sent) >= 1
    /\ ~predicting

\* predicting is true exactly while an invocation awaits an answer
PredictingWhileAwaiting == predicting <=> net # {}

====
